---- MODULE Spec2Model ----
(***************************************************************************)
(* Verification model of the CarryPigeon desktop backend (src-tauri):      *)
(* the length-prefix deframer of the TCP reader task, the plugin store     *)
(* (install / enable / path resolution / zip unpack / same-origin fetch),  *)
(* the TLS trust policies and the session registry.                        *)
(*                                                                         *)
(* Strings the code inspects character by character are sequences of       *)
(* one-character strings; byte buffers are sequences of 0..255.            *)
(***************************************************************************)
EXTENDS Integers, Sequences, FiniteSets, TLC

VARIABLES
    stream,     \* bytes the peer sends on the session's socket (environment)
    received,   \* number of bytes of stream the reader task has read so far
    acc,        \* the reader task's accumulator `acc`
    frames,     \* payloads of the tcp-frame events emitted, in order
    rawEvents,  \* payloads of the legacy tcp-message events emitted, in order
    reader,     \* position of the reader task: "reading" | "ended" | "idle"
    platform,   \* target the binary was built for: "unix" | "windows"
    pathCall,   \* the path-resolution call in progress and its result
    fs,         \* the filesystem: directories and files with their content
    unpackCall, \* the unpack_plugin_zip call in progress and its result
    call,       \* the store / API call in progress or last finished, and its result
    tcp,        \* the session registry, the build it runs in and its last call
    db,         \* the database registry, one database file and the db_init callers
    reg,        \* the database registry under connect_named, close_db and remove_db
    dbtxn,      \* a registered database, its committed rows and the db_transaction call
    par,        \* a filesystem and the store calls of two concurrent tasks on it
    pool,       \* the configuration and the pool sizes of one CPDatabase::new
    lk          \* the registry lock, its waiters and the registry calls of concurrent callers

framerVars == <<stream, received, acc, frames, rawEvents, reader>>

pathVars == <<platform, pathCall>>

unpackVars == <<fs, unpackCall>>

vars == <<stream, received, acc, frames, rawEvents, reader, platform, pathCall,
          fs, unpackCall, call, tcp, db, reg,
          dbtxn, par, pool, lk>>

----------------------------------------------------------------------------
(* Generic helpers                                                         *)

\* The element of a singleton set: The({e : x \in {v}}) is e with x standing
\* for the value v, which is computed once.
The(S) == CHOOSE x \in S : TRUE

Min(a, b) == IF a < b THEN a ELSE b

\* All sequences over S of length 0..n.
SeqsUpTo(S, n) == UNION {[1..k -> S] : k \in 0..n}

\* s without its first n elements (Vec::drain(0..n)).
Drop(s, n) == SubSeq(s, n + 1, Len(s))

----------------------------------------------------------------------------
(* Strings: sequences of one-character strings                             *)

\* str::contains(c)
Contains(s, c) == \E i \in 1..Len(s) : s[i] = c

\* str::starts_with(p)
StartsWith(s, p) == Len(p) <= Len(s) /\ SubSeq(s, 1, Len(p)) = p

\* str::ends_with(p)
EndsWith(s, p) == Len(p) <= Len(s) /\ SubSeq(s, Len(s) - Len(p) + 1, Len(s)) = p

\* str::trim_start_matches(c)
RECURSIVE TrimStartMatches(_, _)
TrimStartMatches(s, c) ==
    IF s # <<>> /\ s[1] = c THEN TrimStartMatches(Tail(s), c) ELSE s

\* str::trim_end_matches(c)
RECURSIVE TrimEndMatches(_, _)
TrimEndMatches(s, c) ==
    IF s # <<>> /\ s[Len(s)] = c THEN TrimEndMatches(SubSeq(s, 1, Len(s) - 1), c) ELSE s

\* str::trim(): the only whitespace of the model's alphabet is the space.
Trim(s) == TrimEndMatches(TrimStartMatches(s, " "), " ")

\* str::split(c), collected: always at least one (possibly empty) segment.
RECURSIVE SplitAcc(_, _, _, _)
SplitAcc(s, c, cur, out) ==
    IF s = <<>> THEN Append(out, cur)
    ELSE IF s[1] = c THEN SplitAcc(Tail(s), c, <<>>, Append(out, cur))
    ELSE SplitAcc(Tail(s), c, Append(cur, s[1]), out)

Split(s, c) == SplitAcc(s, c, <<>>, <<>>)

\* [String].join(sep)
RECURSIVE JoinWith(_, _)
JoinWith(parts, sep) ==
    IF parts = <<>> THEN <<>>
    ELSE IF Len(parts) = 1 THEN parts[1]
    ELSE parts[1] \o <<sep>> \o JoinWith(Tail(parts), sep)

\* str::replace(from, to) for single characters
ReplaceChar(s, from, to) == [i \in 1..Len(s) |-> IF s[i] = from THEN to ELSE s[i]]

----------------------------------------------------------------------------
(* Session reader task: TcpServiceReal::start                              *)

\* Size of the scratch buffer of one read.
ReadBufSize == 4096

\* Hard limit on a frame's payload length.
MaxFramePayload == 10000000

\* Longest byte stream drawn exhaustively.
MaxStreamLen == 6

\* Byte values drawn exhaustively: they give the lengths 0, 1, 2 and (as a
\* high byte) lengths of 256 and more that never complete.
ByteVals == {0, 1, 2}

\* The stream of the framer scenario: 00 03 41 42 43 00 00 00 02 58 59.
ScenarioStream == <<0, 3, 65, 66, 67, 0, 0, 0, 2, 88, 89>>

\* The big-endian bytes of natural number n, without leading zero bytes.
RECURSIVE BigEndianBytes(_)
BigEndianBytes(n) ==
    IF n < 256 THEN <<n>> ELSE Append(BigEndianBytes(n \div 256), n % 256)

\* Streams that begin with the lengths at the limit, written big-endian:
\* 98 96 80 (10 000 000) and 98 96 81 (10 000 001), and with the largest
\* header, FF FF.
LimitStreams ==
    {BigEndianBytes(MaxFramePayload), BigEndianBytes(MaxFramePayload + 1), <<255, 255, 1>>}

\* u16::from_be_bytes([acc[0], acc[1]]) as usize
FrameLen(a) == (a[1] * 256 + a[2]) % 65536

\* The inner `loop` of the reader task, run to its `break`: drains as many
\* complete frames as possible from accumulator a; out collects the payloads
\* emitted as tcp-frame events.
RECURSIVE DrainFramesBroken(_, _)
DrainFramesBroken(a, out) ==
    IF Len(a) < 2 THEN [acc |-> a, out |-> out]
    ELSE LET len == FrameLen(a) IN
         IF len = 0 THEN DrainFramesBroken(Drop(a, 2), out)
         ELSE IF len > MaxFramePayload THEN [acc |-> <<>>, out |-> out]
         ELSE IF Len(a) < len THEN [acc |-> a, out |-> out]
         ELSE DrainFramesBroken(Drop(a, 2 + len),
                                Append(out, SubSeq(a, 3, Min(2 + len, Len(a)))))

\* A variant of DrainFrames whose limit is 255, a length that a header can
\* announce.
RECURSIVE DrainFramesLimit255(_, _)
DrainFramesLimit255(a, out) ==
    IF Len(a) < 2 THEN [acc |-> a, out |-> out]
    ELSE LET len == FrameLen(a) IN
         IF len = 0 THEN DrainFramesLimit255(Drop(a, 2), out)
         ELSE IF len > 255 THEN [acc |-> <<>>, out |-> out]
         ELSE IF Len(a) < 2 + len THEN [acc |-> a, out |-> out]
         ELSE DrainFramesLimit255(Drop(a, 2 + len), Append(out, SubSeq(a, 3, 2 + len)))

\* A variant of DrainFrames that leaves its loop after the first frame.
DrainFramesOnce(a, out) ==
    IF Len(a) < 2 THEN [acc |-> a, out |-> out]
    ELSE LET len == FrameLen(a) IN
         IF len = 0 THEN [acc |-> Drop(a, 2), out |-> out]
         ELSE IF len > MaxFramePayload THEN [acc |-> <<>>, out |-> out]
         ELSE IF Len(a) < 2 + len THEN [acc |-> a, out |-> out]
         ELSE [acc |-> Drop(a, 2 + len), out |-> Append(out, SubSeq(a, 3, 2 + len))]

RECURSIVE DrainFrames(_, _)
DrainFrames(a, out) ==
    IF Len(a) < 2 THEN [acc |-> a, out |-> out]
    ELSE LET len == FrameLen(a) IN
         IF len = 0 THEN DrainFrames(Drop(a, 2), out)
         ELSE IF len > MaxFramePayload THEN [acc |-> <<>>, out |-> out]
         ELSE IF Len(a) < 2 + len THEN [acc |-> a, out |-> out]
         ELSE DrainFrames(Drop(a, 2 + len), Append(out, SubSeq(a, 3, 2 + len)))

\* Ok(n), n > 0: one read of n bytes, the raw event, then the drain loop.
ReadChunk(n) ==
    /\ reader = "reading"
    /\ n >= 1
    /\ n <= Min(ReadBufSize, Len(stream) - received)
    /\ LET chunk == SubSeq(stream, received + 1, received + n)
           d == DrainFrames(acc \o chunk, <<>>)
       IN /\ rawEvents' = Append(rawEvents, chunk)
          /\ acc' = d.acc
          /\ frames' = frames \o d.out
    /\ received' = received + n
    /\ UNCHANGED <<stream, reader>>

\* Ok(0): the peer closed the connection after its last byte; the task returns.
ReadEof ==
    /\ reader = "reading"
    /\ received = Len(stream)
    /\ reader' = "ended"
    /\ UNCHANGED <<stream, received, acc, frames, rawEvents>>

\* Err(e): a read error at any point; the task logs and leaves the loop.
ReadError ==
    /\ reader = "reading"
    /\ reader' = "ended"
    /\ UNCHANGED <<stream, received, acc, frames, rawEvents>>

\* The reader task as spawned by start(): nothing read, empty accumulator.
FramerStart ==
    /\ stream \in SeqsUpTo(ByteVals, MaxStreamLen) \cup {ScenarioStream} \cup LimitStreams
    /\ received = 0
    /\ acc = <<>>
    /\ frames = <<>>
    /\ rawEvents = <<>>
    /\ reader = "reading"

\* No session: no reader task.
FramerIdle ==
    /\ stream = <<>>
    /\ received = 0
    /\ acc = <<>>
    /\ frames = <<>>
    /\ rawEvents = <<>>
    /\ reader = "idle"

FramerNext ==
    /\ \/ \E n \in 1..Min(ReadBufSize, Len(stream) - received) : ReadChunk(n)
       \/ ReadEof
       \/ ReadError
    /\ UNCHANGED <<pathVars, unpackVars, call, tcp, db, reg, dbtxn, par, pool, lk>>

----------------------------------------------------------------------------
(* Plugin paths: sanitize_segment, safe_join, resolve_app_plugins_path     *)

\* A filesystem path: root names where it is anchored ("plugins" is
\* base_plugins_dir(), "drive" another drive-anchored location, "fsroot" the
\* filesystem root) and comps are the components below it.
PluginsBase == [root |-> "plugins", comps |-> <<>>]

\* ASCII letters of the model's alphabet (a drive letter on Windows).
Letters == {"a", "b", "c", "e", "i", "p", "r", "s", "t", "x"}

\* sanitize_segment: Ok(trimmed segment) or Err.
sanitize_segment(seg) ==
    LET s == Trim(seg) IN
    IF s = <<>> THEN [ok |-> FALSE, val |-> <<>>]
    ELSE IF s = <<".">> \/ s = <<".", ".">> \/ Contains(s, "\\") \/ Contains(s, "/")
         THEN [ok |-> FALSE, val |-> <<>>]
    ELSE IF Contains(s, ":") THEN [ok |-> FALSE, val |-> <<>>]
    ELSE [ok |-> TRUE, val |-> s]

\* safe_join: push every sanitized segment, or fail at the first bad one.
RECURSIVE safe_join(_, _)
safe_join(root, segments) ==
    IF segments = <<>> THEN [ok |-> TRUE, path |-> root]
    ELSE LET seg == sanitize_segment(segments[1]) IN
         IF ~seg.ok THEN [ok |-> FALSE, path |-> root]
         ELSE safe_join([root EXCEPT !.comps = Append(@, seg.val)], Tail(segments))

\* Components of a relative path string: separators are '/' (and on Windows
\* also '\'); empty components and '.' are dropped by Path's normalisation.
PathComponents(plat, rel) ==
    LET unified == IF plat = "windows" THEN ReplaceChar(rel, "\\", "/") ELSE rel
        IsKept(c) == c # <<>> /\ c # <<".">>
    IN SelectSeq(Split(unified, "/"), IsKept)

\* PathBuf::join / push: an absolute argument replaces the path; on Windows an
\* argument with a drive prefix ("c:...") replaces it as well; anything else is
\* appended below the path.
PathJoin(plat, p, rel) ==
    IF plat = "windows" /\ Len(rel) >= 2 /\ rel[1] \in Letters /\ rel[2] = ":"
    THEN [root |-> "drive", comps |-> PathComponents(plat, Drop(rel, 2))]
    ELSE IF rel # <<>> /\ (rel[1] = "/" \/ (plat = "windows" /\ rel[1] = "\\"))
    THEN [root |-> "fsroot", comps |-> PathComponents(plat, rel)]
    ELSE [p EXCEPT !.comps = @ \o PathComponents(plat, rel)]

\* resolve_app_plugins_path: Ok(path) or Err.
resolve_app_plugins_path(plat, server_id, plugin_id, version, rel_path) ==
    LET rel == TrimStartMatches(Trim(rel_path), "/")
        segs == Split(rel, "/")
        root == safe_join(PluginsBase, <<server_id, plugin_id, version>>)
    IN IF rel = <<>> THEN [ok |-> FALSE, path |-> PluginsBase]
       ELSE IF Contains(rel, "\\") THEN [ok |-> FALSE, path |-> PluginsBase]
       ELSE IF \E i \in 1..Len(segs) :
                  segs[i] = <<>> \/ segs[i] = <<".">> \/ segs[i] = <<".", ".">>
            THEN [ok |-> FALSE, path |-> PluginsBase]
       ELSE IF ~root.ok THEN [ok |-> FALSE, path |-> PluginsBase]
       ELSE [ok |-> TRUE, path |-> PathJoin(plat, root.path, rel)]

\* The hex closure of percent_decode.
HexDigits == {"0", "1", "2", "3", "4", "5", "6", "7", "8", "9",
              "a", "b", "c", "d", "e", "f", "A", "B", "C", "D", "E", "F"}

HexVal(c) ==
    CASE c = "0" -> 0 [] c = "1" -> 1 [] c = "2" -> 2 [] c = "3" -> 3
      [] c = "4" -> 4 [] c = "5" -> 5 [] c = "6" -> 6 [] c = "7" -> 7
      [] c = "8" -> 8 [] c = "9" -> 9
      [] c \in {"a", "A"} -> 10 [] c \in {"b", "B"} -> 11
      [] c \in {"c", "C"} -> 12 [] c \in {"d", "D"} -> 13
      [] c \in {"e", "E"} -> 14 [] c \in {"f", "F"} -> 15

\* String::from_utf8_lossy of one decoded byte, for the bytes of the alphabet;
\* every other byte is shown as "?".
CharOfByte(b) ==
    CASE b = 32 -> " " [] b = 37 -> "%" [] b = 46 -> "." [] b = 47 -> "/"
      [] b = 58 -> ":" [] b = 92 -> "\\" [] b = 97 -> "a" [] b = 99 -> "c"
      [] OTHER -> "?"

\* percent_decode: only %xx with two hex digits is decoded.
RECURSIVE percent_decode(_)
percent_decode(input) ==
    IF input = <<>> THEN <<>>
    ELSE IF input[1] = "%" /\ Len(input) >= 3
            /\ input[2] \in HexDigits /\ input[3] \in HexDigits
         THEN <<CharOfByte(HexVal(input[2]) * 16 + HexVal(input[3]))>>
              \o percent_decode(Drop(input, 3))
    ELSE <<input[1]>> \o percent_decode(Tail(input))

\* str::to_lowercase, for the letters of the alphabet.
LowerChar(c) ==
    CASE c = "T" -> "t" [] c = "S" -> "s" [] c = "J" -> "j"
      [] c = "A" -> "a" [] c = "B" -> "b" [] c = "C" -> "c"
      [] c = "D" -> "d" [] c = "E" -> "e" [] c = "F" -> "f"
      [] OTHER -> c

to_lowercase(s) == [i \in 1..Len(s) |-> LowerChar(s[i])]

\* "app://plugins/"
AppPrefix == <<"a", "p", "p", ":", "/", "/", "p", "l", "u", "g", "i", "n", "s", "/">>

\* Text before the first occurrence of c (str::split(c).next()).
UpTo(s, c) == Split(s, c)[1]

\* handle_app_scheme up to the path resolution: the status it answers with
\* when it stops early, or the resolution of the decoded segments.
handle_app_scheme_resolve(plat, uri) ==
    IF ~StartsWith(uri, AppPrefix)
    THEN [status |-> 404, ok |-> FALSE, path |-> PluginsBase, rel |-> <<>>]
    ELSE LET rest == Drop(uri, Len(AppPrefix))
             path_only == UpTo(UpTo(rest, "?"), "#")
             IsNonEmpty(x) == x # <<>>
             segs == SelectSeq(Split(path_only, "/"), IsNonEmpty)
         IN IF Len(segs) < 4
            THEN [status |-> 400, ok |-> FALSE, path |-> PluginsBase, rel |-> <<>>]
            ELSE LET rel_path == JoinWith([i \in 1..(Len(segs) - 3) |->
                                              percent_decode(segs[i + 3])], "/")
                     r == resolve_app_plugins_path(plat, percent_decode(segs[1]),
                              percent_decode(segs[2]), percent_decode(segs[3]), rel_path)
                 IN IF r.ok THEN [status |-> 200, ok |-> TRUE, path |-> r.path, rel |-> rel_path]
                    ELSE [status |-> 500, ok |-> FALSE, path |-> PluginsBase, rel |-> rel_path]

\* mime_by_path: the Content-Type of a path, by its suffix in lower case.
mime_by_path(path) ==
    The({
        IF EndsWith(p, <<".", "j", "s">>) \/ EndsWith(p, <<".", "m", "j", "s">>)
        THEN "text/javascript; charset=utf-8"
        ELSE IF EndsWith(p, <<".", "c", "s", "s">>) THEN "text/css; charset=utf-8"
        ELSE IF EndsWith(p, <<".", "j", "s", "o", "n">>) THEN "application/json; charset=utf-8"
        ELSE IF EndsWith(p, <<".", "s", "v", "g">>) THEN "image/svg+xml"
        ELSE IF EndsWith(p, <<".", "p", "n", "g">>) THEN "image/png"
        ELSE IF EndsWith(p, <<".", "j", "p", "g">>) \/ EndsWith(p, <<".", "j", "p", "e", "g">>)
        THEN "image/jpeg"
        ELSE IF EndsWith(p, <<".", "w", "e", "b", "p">>) THEN "image/webp"
        ELSE IF EndsWith(p, <<".", "w", "o", "f", "f">>) THEN "font/woff"
        ELSE IF EndsWith(p, <<".", "w", "o", "f", "f", "2">>) THEN "font/woff2"
        ELSE IF EndsWith(p, <<".", "t", "t", "f">>) THEN "font/ttf"
        ELSE "application/octet-stream"
        : p \in {to_lowercase(path)}})

\* build_http_response: the status, the Content-Type header if any, the body.
build_http_response(status, content_type, body) ==
    [status |-> status, content_type |-> content_type, body |-> body]

\* What std::fs::read of the resolved path gives: the bytes, or an error.
FileRead(ok, bytes) == [ok |-> ok, bytes |-> bytes]

FileReads == {FileRead(TRUE, <<66>>), FileRead(FALSE, <<>>)}

\* The variant of the handler that answers 404 when the file cannot be read.
handle_app_scheme_not_found(plat, uri, file) ==
    The({
        IF r.status # 200 THEN build_http_response(r.status, "", <<>>)
        ELSE IF ~file.ok THEN build_http_response(404, "", <<>>)
        ELSE build_http_response(200, mime_by_path(r.rel), file.bytes)
        : r \in {handle_app_scheme_resolve(plat, uri)}})

\* handle_app_scheme as registered in run: an Err of the handler is answered
\* with 500 and an empty body.
handle_app_scheme(plat, uri, file) ==
    The({
        IF r.status # 200 THEN build_http_response(r.status, "", <<>>)
        ELSE IF ~file.ok THEN build_http_response(500, "", <<>>)
        ELSE build_http_response(200, mime_by_path(r.rel), file.bytes)
        : r \in {handle_app_scheme_resolve(plat, uri)}})

\* Longest server_id / plugin_id / version drawn exhaustively.
MaxSegLen == 3

\* Longest rel_path drawn exhaustively.
MaxRelLen == 4

\* Most path segments of an app:// URI drawn.
MaxUriSegs == 5

\* Characters segments and relative paths are drawn from.
PathAlphabet == {"a", ".", "/", "\\", ":", " "}

\* A well-formed segment.
GoodSeg == <<"a">>

\* Raw (still percent-encoded) URI segments: a, %2e%2e, a%2Fa, a%5Ca, a%3A, %2e.
RawUriSegs ==
    { <<"a">>,
      <<"%", "2", "e", "%", "2", "e">>,
      <<"a", "%", "2", "F", "a">>,
      <<"a", "%", "5", "C", "a">>,
      <<"a", "%", "3", "A">>,
      <<"%", "2", "e">> }

\* Arguments of direct calls of resolve_app_plugins_path: each argument in turn
\* ranges over every string up to its bound, the others being well-formed.
ResolveInputs ==
    {<<s, GoodSeg, GoodSeg, GoodSeg>> : s \in SeqsUpTo(PathAlphabet, MaxSegLen)}
    \cup {<<GoodSeg, s, GoodSeg, GoodSeg>> : s \in SeqsUpTo(PathAlphabet, MaxSegLen)}
    \cup {<<GoodSeg, GoodSeg, s, GoodSeg>> : s \in SeqsUpTo(PathAlphabet, MaxSegLen)}
    \cup {<<GoodSeg, GoodSeg, GoodSeg, r>> : r \in SeqsUpTo(PathAlphabet, MaxRelLen)}

\* What follows the prefix in further URIs: files of several suffixes, a
\* query and a fragment after and within the first four segments, empty
\* segments, a blank file name, fewer than three segments.
UriTails ==
    {<<"a", "/", "a", "/", "a", "/", "a">> \o suffix :
        suffix \in {<<".", "j", "s">>, <<".", "J", "S">>, <<".", "m", "j", "s">>,
                    <<".", "c", "s", "s">>, <<".", "j", "s", "o", "n">>,
                    <<".", "s", "v", "g">>, <<".", "p", "n", "g">>, <<".", "j", "p", "g">>,
                    <<".", "j", "p", "e", "g">>, <<".", "w", "e", "b", "p">>,
                    <<".", "w", "o", "f", "f">>, <<".", "w", "o", "f", "f", "2">>,
                    <<".", "t", "t", "f">>, <<"j", "s">>,
                    <<".", "j", "s", "?", "x", "/", "y">>, <<".", "j", "s", "#", "x">>,
                    <<"?", "x", "#", "y">>, <<"#", "x", "?", "y">>}}
    \cup {<<"a", "/", "a", "/", "a", "?", "/", "a">>,
          <<"a", "/", "a", "/", "a", "#", "/", "a">>,
          <<"a", "/", "/", "a", "/", "a", "/", "/", "a">>,
          <<"a", "/", "a", "/", "/", "a", "/">>,
          <<"a", "/", "a", "/", "a", "/", "%", "2", "0">>,
          <<"a", "/", "a">>, <<"a">>, <<>>}

\* URIs of app:// requests: the prefix followed by 3..MaxUriSegs raw segments,
\* and one URI of another host.
UriInputs ==
    {AppPrefix \o JoinWith(segs, "/") :
        segs \in UNION {[1..k -> RawUriSegs] : k \in 3..MaxUriSegs}}
    \cup {<<"a", "p", "p", ":", "/", "/", "x", "/", "a", "/", "a", "/", "a", "/", "a">>}
    \cup {AppPrefix \o rest : rest \in UriTails}
    \cup {<<"a", "p", "p", ":", "/", "/", "p", "l", "u", "g", "i", "n", "s">>}

NoPathCall ==
    [pc |-> "idle", via |-> "none", args |-> <<>>, uri |-> <<>>, file |-> FileRead(FALSE, <<>>),
     status |-> 0, ok |-> FALSE, path |-> PluginsBase, content_type |-> "", body |-> <<>>]

\* A request waiting to be served.
PathStart ==
    /\ platform \in {"unix", "windows"}
    /\ pathCall \in
         {[NoPathCall EXCEPT !.pc = "pending", !.via = "resolve", !.args = a] :
            a \in ResolveInputs}
         \cup {[NoPathCall EXCEPT !.pc = "pending", !.via = "app", !.uri = u, !.file = f] :
            u \in UriInputs, f \in FileReads}

PathIdle ==
    /\ platform = "unix"
    /\ pathCall = NoPathCall

\* A caller invokes resolve_app_plugins_path(server_id, plugin_id, version, rel).
ResolveAppPluginsPath ==
    /\ pathCall.pc = "pending"
    /\ pathCall.via = "resolve"
    /\ LET a == pathCall.args
           r == resolve_app_plugins_path(platform, a[1], a[2], a[3], a[4])
       IN pathCall' = [pathCall EXCEPT !.pc = "done", !.ok = r.ok, !.path = r.path,
                                       !.status = IF r.ok THEN 200 ELSE 500]
    /\ UNCHANGED platform

\* The webview requests an app:// URI: decode the segments, resolve, read
\* the file and answer.
HandleAppScheme ==
    /\ pathCall.pc = "pending"
    /\ pathCall.via = "app"
    /\ \E r \in {handle_app_scheme_resolve(platform, pathCall.uri)} :
           \E res \in {handle_app_scheme(platform, pathCall.uri, pathCall.file)} :
               pathCall' = [pathCall EXCEPT !.pc = "done", !.ok = r.ok, !.path = r.path,
                                           !.status = res.status,
                                           !.content_type = res.content_type,
                                           !.body = res.body]
    /\ UNCHANGED platform

PathNext ==
    /\ \/ ResolveAppPluginsPath
       \/ HandleAppScheme
    /\ UNCHANGED <<framerVars, unpackVars, call, tcp, db, reg, dbtxn, par, pool, lk>>
----------------------------------------------------------------------------
(* Filesystem                                                              *)

\* The empty filesystem: data/plugins does not exist yet.
EmptyFs == [dirs |-> {}, files |-> <<>>]

\* Opaque file content.
Blob(tag) == [kind |-> "blob", tag |-> tag]

\* Path::parent
Parent(p) == [p EXCEPT !.comps = SubSeq(@, 1, Len(@) - 1)]

\* The path and the directories above it, up to its anchor.
Ancestors(p) == {[p EXCEPT !.comps = SubSeq(@, 1, k)] : k \in 0..Len(p.comps)}

\* Path::join of a single file name.
Child(p, name) == [p EXCEPT !.comps = Append(@, name)]

IsFile(f, p) == p \in DOMAIN f.files

IsDir(f, p) == p \in f.dirs

\* fs::metadata(p).is_ok()
Exists(f, p) == IsFile(f, p) \/ IsDir(f, p)

\* fs::create_dir_all: fails when a component of the path is a file.
create_dir_all(f, p) ==
    IF \E a \in Ancestors(p) : IsFile(f, a) THEN [ok |-> FALSE, fs |-> f]
    ELSE [ok |-> TRUE, fs |-> [f EXCEPT !.dirs = @ \cup Ancestors(p)]]

\* File::create + write_all (also fs::write): fails on a directory or when the
\* parent directory is missing; replaces the content of an existing file.
write_file(f, p, data) ==
    IF IsDir(f, p) \/ p.comps = <<>> \/ ~IsDir(f, Parent(p)) THEN [ok |-> FALSE, fs |-> f]
    ELSE [ok |-> TRUE,
          fs |-> [f EXCEPT !.files =
                    [q \in (DOMAIN f.files) \cup {p} |-> IF q = p THEN data ELSE f.files[q]]]]

----------------------------------------------------------------------------
(* Zip unpack: unpack_plugin_zip                                           *)

\* An archive is a sequence of entries [name, data]; NotAZip stands for bytes
\* ZipArchive::new rejects.
NotAZip == <<[name |-> <<>>, data |-> [kind |-> "blob", tag |-> "not-a-zip"]]>>

\* ZipFile::is_dir: the raw name ends with a slash or a backslash.
zip_is_dir(name) == name # <<>> /\ name[Len(name)] \in {"/", "\\"}

normalize_zip_name(raw) == TrimStartMatches(ReplaceChar(raw, "\\", "/"), "/")

is_zip_name_safe_no_dotdot(name) ==
    LET segs == Split(name, "/") IN
    /\ name # <<>>
    /\ name[1] # "/"
    /\ ~Contains(name, ":")
    /\ \A i \in 1..Len(segs) : segs[i] # <<>> /\ segs[i] # <<".">>

is_zip_name_safe(name) ==
    LET segs == Split(name, "/") IN
    /\ name # <<>>
    /\ name[1] # "/"
    /\ ~Contains(name, ":")
    /\ \A i \in 1..Len(segs) :
          segs[i] # <<>> /\ segs[i] # <<".">> /\ segs[i] # <<".", ".">>

\* detect_single_root_prefix: [some, val]; prefix is the candidate so far.
RECURSIVE detect_root_loop(_, _)
detect_root_loop(names, prefix) ==
    IF names = <<>> THEN prefix
    ELSE LET segs == Split(names[1], "/") IN
         IF Len(segs) < 2 THEN [some |-> FALSE, val |-> <<>>]
         ELSE IF prefix.some /\ prefix.val # segs[1] THEN [some |-> FALSE, val |-> <<>>]
         ELSE detect_root_loop(Tail(names), [some |-> TRUE, val |-> segs[1]])

detect_single_root_prefix(names) ==
    detect_root_loop(names, [some |-> FALSE, val |-> <<>>])

strip_root_prefix(name, prefix) ==
    IF ~StartsWith(name, prefix) THEN name
    ELSE TrimStartMatches(Drop(name, Len(prefix)), "/")

is_forbidden_source_file(path) ==
    LET lower == to_lowercase(path) IN
    IF EndsWith(lower, <<".", "d", ".", "t", "s">>) THEN FALSE
    ELSE \/ EndsWith(lower, <<".", "v", "u", "e">>)
         \/ EndsWith(lower, <<".", "t", "s">>)
         \/ EndsWith(lower, <<".", "t", "s", "x">>)
         \/ EndsWith(lower, <<".", "s", "c", "s", "s">>)
         \/ EndsWith(lower, <<".", "s", "a", "s", "s">>)
         \/ EndsWith(lower, <<".", "l", "e", "s", "s">>)

\* The first loop: normalized names of the non-directory entries.
zip_file_names(archive) ==
    LET IsNamedFile(e) == ~zip_is_dir(e.name) /\ normalize_zip_name(e.name) # <<>>
        kept == SelectSeq(archive, IsNamedFile)
    IN [i \in 1..Len(kept) |-> normalize_zip_name(kept[i].name)]

\* The second loop from entry i on: [ok, fs, written]; written lists the
\* indices of the entries something was created for.
RECURSIVE unpack_entries(_, _, _, _, _, _, _)
unpack_entries(plat, f, write_root, archive, root_prefix, i, written) ==
    IF i > Len(archive) THEN [ok |-> TRUE, fs |-> f, written |-> written]
    ELSE LET raw == archive[i].name
             normalized == normalize_zip_name(raw)
             final_name == IF root_prefix.some
                           THEN strip_root_prefix(normalized, root_prefix.val)
                           ELSE normalized
             out_path == PathJoin(plat, write_root, final_name)
             failed == [ok |-> FALSE, fs |-> f, written |-> written]
             next(g, w) == unpack_entries(plat, g, write_root, archive, root_prefix, i + 1, w)
         IN IF normalized = <<>> THEN next(f, written)
            ELSE IF ~is_zip_name_safe(normalized) THEN failed
            ELSE IF final_name = <<>> THEN next(f, written)
            ELSE IF ~is_zip_name_safe(final_name) THEN failed
            ELSE IF zip_is_dir(raw)
                 THEN LET d == create_dir_all(f, out_path) IN
                      IF d.ok THEN next(d.fs, Append(written, i)) ELSE failed
            ELSE IF is_forbidden_source_file(final_name) THEN failed
            ELSE LET d == create_dir_all(f, Parent(out_path))
                     w == write_file(d.fs, out_path, archive[i].data)
                 IN IF ~d.ok THEN failed
                    ELSE IF ~w.ok
                         THEN [ok |-> FALSE, fs |-> d.fs,
                               written |-> IF d.fs = f THEN written
                                           ELSE Append(written, i)]
                    ELSE next(w.fs, Append(written, i))

\* unpack_plugin_zip(bytes, write_root)
unpack_plugin_zip(plat, f, write_root, archive) ==
    IF archive = NotAZip THEN [ok |-> FALSE, fs |-> f, written |-> <<>>]
    ELSE unpack_entries(plat, f, write_root, archive,
                        detect_single_root_prefix(zip_file_names(archive)), 1, <<>>)

\* Longest zip entry name drawn exhaustively.
MaxZipNameLen == 4

\* Characters zip entry names are drawn from.
ZipAlphabet == {"a", "r", ".", "/", "\\", ":"}

\* The server id, plugin id and versions of the model.
ServerS == <<"s">>
PluginP == <<"p">>
Version1 == <<"1">>
Version2 == <<"2">>

\* plugin_version_dir("s", "p", v)
VersionDir(v) == [root |-> "plugins", comps |-> <<ServerS, PluginP, v>>]

\* An archive entry.
ZipEntry(name, data) == [name |-> name, data |-> data]

\* "r/a", "a", "a.ts", "a.d.ts", "r/b/c"
NameRA == <<"r", "/", "a">>
NameA == <<"a">>
NameATs == <<"a", ".", "T", "s">>
NameADTs == <<"a", ".", "d", ".", "t", "s">>
NameRBC == <<"r", "/", "b", "/", "c">>

\* Archives handed to unpack_plugin_zip: every name up to the bound alone,
\* before and after a file under the root "r", and after a top-level file; the
\* archives of the single-root examples; source files; bytes that are no zip.
UnpackArchives ==
    LET names == SeqsUpTo(ZipAlphabet, MaxZipNameLen) IN
    {<<ZipEntry(n, Blob("f1"))>> : n \in names}
    \cup {<<ZipEntry(NameRA, Blob("f1")), ZipEntry(n, Blob("f2"))>> : n \in names}
    \cup {<<ZipEntry(n, Blob("f1")), ZipEntry(NameRA, Blob("f2"))>> : n \in names}
    \cup {<<ZipEntry(NameA, Blob("f1")), ZipEntry(n, Blob("f2"))>> : n \in names}
    \cup { <<ZipEntry(NameRA, Blob("f1")), ZipEntry(NameRBC, Blob("f2"))>>,
           <<ZipEntry(NameA, Blob("f1")), ZipEntry(NameATs, Blob("f2"))>>,
           <<ZipEntry(NameADTs, Blob("f1"))>>,
           NotAZip }

NoUnpackCall == [pc |-> "idle", archive |-> <<>>, ok |-> FALSE, written |-> <<>>]

\* The version directory as install creates it right before the unpack.
FreshVersionDirFs == create_dir_all(EmptyFs, VersionDir(Version1)).fs

UnpackStart ==
    /\ fs = FreshVersionDirFs
    /\ unpackCall \in {[NoUnpackCall EXCEPT !.pc = "pending", !.archive = a] :
                          a \in UnpackArchives}

UnpackIdle ==
    /\ fs = EmptyFs
    /\ unpackCall = NoUnpackCall

\* unpack_plugin_zip(bytes, version_dir) runs to completion.
UnpackPluginZip ==
    /\ unpackCall.pc = "pending"
    /\ LET r == unpack_plugin_zip(platform, fs, VersionDir(Version1), unpackCall.archive)
       IN /\ fs' = r.fs
          /\ unpackCall' = [unpackCall EXCEPT !.pc = "done", !.ok = r.ok,
                                              !.written = r.written]
    /\ UNCHANGED platform

UnpackNext ==
    /\ UnpackPluginZip
    /\ UNCHANGED <<framerVars, pathCall, call, tcp, db, reg, dbtxn, par, pool, lk>>

----------------------------------------------------------------------------
(* Origins and URLs. A socket or URL is a sequence of tokens: a scheme      *)
(* prefix ("tls://", "https://", ...), a host name and a port number are   *)
(* one token each, every other character is a token of its own.            *)

\* The schemes Url::parse reads, by prefix token ("" for anything else).
UrlSchemeOf(tok) ==
    CASE tok = "http://" -> "http"
      [] tok \in {"https://", "HTTPS://"} -> "https"
      [] tok = "ftp://" -> "ftp"
      [] OTHER -> ""

SchemeToken(scheme) ==
    CASE scheme = "http" -> "http://" [] scheme = "https" -> "https://" [] OTHER -> "ftp://"

\* Url::port_or_known_default for a URL without explicit port.
DefaultPort(scheme) ==
    CASE scheme = "http" -> "80" [] scheme = "https" -> "443" [] OTHER -> "21"

HostTokens == {"a", "b", "A"}

PortTokens == {"80", "443", "8443"}

\* Index of the first element of s in set C, 0 when there is none.
IndexOfAny(s, C) ==
    IF \E i \in 1..Len(s) : s[i] \in C
    THEN CHOOSE i \in 1..Len(s) : s[i] \in C /\ \A j \in 1..(i - 1) : s[j] \notin C
    ELSE 0

\* Index of the last occurrence of c in s, 0 when there is none.
LastIndexOf(s, c) ==
    IF Contains(s, c)
    THEN CHOOSE i \in 1..Len(s) : s[i] = c /\ \A j \in (i + 1)..Len(s) : s[j] # c
    ELSE 0

\* The part of s before, from and after the first element of s that is in C.
BeforeFirst(s, C) ==
    The({IF i = 0 THEN s ELSE SubSeq(s, 1, i - 1) : i \in {IndexOfAny(s, C)}})

FromFirst(s, C) == The({IF i = 0 THEN <<>> ELSE Drop(s, i - 1) : i \in {IndexOfAny(s, C)}})

AfterFirst(s, C) == The({IF i = 0 THEN <<>> ELSE Drop(s, i) : i \in {IndexOfAny(s, C)}})

\* The authority of a URL ends at the first of these.
UrlDelims == {"/", "\\", "?", "#"}

\* host[:port] of the URL s: its authority without the user info.
UrlHostPort(s) ==
    The({Drop(authority, LastIndexOf(authority, "@")) :
            authority \in {BeforeFirst(Tail(s), UrlDelims)}})

UrlError == [ok |-> FALSE, scheme |-> "", host |-> "", port |-> "", path |-> <<>>]

\* reqwest::Url::parse: scheme, authority up to the first '/', '\', '?' or
\* '#', user info up to the last '@', host (lowercased), port (dropped when it
\* is the default port of the scheme).
UrlParse(s) ==
    IF s = <<>> \/ UrlSchemeOf(s[1]) = "" THEN UrlError
    ELSE The({
        IF Len(hostpart) # 1 \/ hostpart[1] \notin HostTokens THEN UrlError
        ELSE IF Len(portpart) > 1 \/ (Len(portpart) = 1 /\ portpart[1] \notin PortTokens)
             THEN UrlError
        ELSE [ok |-> TRUE, scheme |-> scheme, host |-> LowerChar(hostpart[1]),
              port |-> IF portpart = <<>> \/ portpart[1] = DefaultPort(scheme)
                       THEN "" ELSE portpart[1],
              path |-> IF path = <<>> THEN <<"/">> ELSE path]
        : scheme \in {UrlSchemeOf(s[1])},
          hostpart \in {BeforeFirst(UrlHostPort(s), {":"})},
          portpart \in {AfterFirst(UrlHostPort(s), {":"})},
          path \in {FromFirst(Tail(s), UrlDelims)}})

\* port_suffix
port_suffix(u) == IF u.port = "" THEN <<>> ELSE <<":", u.port>>

\* to_http_origin: Ok(origin) or Err.
to_http_origin(server_socket) ==
    The({
        IF raw = <<>> THEN [ok |-> FALSE, err |-> "Missing server socket", val |-> <<>>]
        ELSE The({
            IF ~u.ok THEN [ok |-> FALSE, err |-> "Invalid server socket URL", val |-> <<>>]
            ELSE [ok |-> TRUE, err |-> "",
                  val |-> <<SchemeToken(u.scheme), u.host>> \o port_suffix(u)]
            : u \in {UrlParse(
                CASE raw[1] \in {"ws://", "tcp://"} -> <<"http://">> \o Tail(raw)
                  [] raw[1] \in {"wss://", "tls://", "tls-insecure://"} ->
                       <<"https://">> \o Tail(raw)
                  [] raw[1] = "tls-fp://" ->
                       <<"https://">> \o Drop(Tail(raw), IndexOfAny(Tail(raw), {"@"}))
                  [] raw[1] \in {"http://", "https://"} -> raw
                  [] OTHER -> <<"https://">> \o raw)}})
        : raw \in {Trim(server_socket)}})

\* is_same_origin(a, b)
is_same_origin(a, b) ==
    a.scheme = b.scheme /\ a.host = b.host /\ port_suffix(a) = port_suffix(b)

----------------------------------------------------------------------------
(* TLS policy, fingerprint pinning and the HTTP client                     *)

\* Length of a SHA-256 digest in hex characters.
FingerprintLen == 64

\* The string of FingerprintLen copies of c.
Fill(c) == [i \in 1..FingerprintLen |-> c]

\* What the TLS peer at the origin's address does: refuse the TCP connection,
\* fail the handshake, present no certificate, or present one of two leaves.
Peers == {"refused", "handshake_failed", "no_cert", "certA", "certB"}

\* sha256_hex(der) of the two leaf certificates.
cert_sha256_hex(cert) == IF cert = "certA" THEN Fill("a") ELSE Fill("b")

\* A TCP connect, a TLS handshake or an HTTP request the call performed.
TcpConnectEvent(host, port) ==
    [kind |-> "tcp_connect", client |-> "", scheme |-> "", host |-> host, port |-> port,
     path |-> <<>>, cert |-> ""]

TlsHandshakeEvent(host, port, cert) ==
    [kind |-> "tls_handshake", client |-> "", scheme |-> "", host |-> host, port |-> port,
     path |-> <<>>, cert |-> cert]

HttpEvent(client, u) ==
    [kind |-> "http", client |-> client, scheme |-> u.scheme, host |-> u.host,
     port |-> IF u.port = "" THEN DefaultPort(u.scheme) ELSE u.port,
     path |-> u.path, cert |-> ""]

\* parse_tls_policy; None is the empty string.
parse_tls_policy(raw) ==
    LET t == Trim(IF raw = <<>> THEN <<"strict">> ELSE raw) IN
    IF t = <<"insecure">> THEN "Insecure"
    ELSE IF t = <<"trust_fingerprint">> THEN "TrustFingerprint"
    ELSE "Strict"

\* normalize_fingerprint
normalize_fingerprint(raw) ==
    LET IsAsciiHexdigit(c) == c \in HexDigits IN
    SelectSeq(to_lowercase(Trim(raw)), IsAsciiHexdigit)

\* extract_host_port_from_origin
extract_host_port_from_origin(origin) ==
    The({
        IF ~u.ok THEN [ok |-> FALSE, host |-> "", port |-> ""]
        ELSE [ok |-> TRUE, host |-> u.host,
              port |-> IF u.port = "" THEN DefaultPort(u.scheme) ELSE u.port]
        : u \in {UrlParse(origin)}})

\* The variant of verify_https_fingerprint that accepts any leaf.
verify_https_fingerprint_any_leaf(net, origin, expected_sha256) ==
    The({
        IF Len(expected) # FingerprintLen
        THEN [ok |-> FALSE, err |-> "Invalid TLS fingerprint", events |-> <<>>]
        ELSE IF ~hp.ok THEN [ok |-> FALSE, err |-> "Invalid origin URL", events |-> <<>>]
        ELSE IF net.peer = "refused"
             THEN [ok |-> FALSE, err |-> "Failed to connect for TLS fingerprint check",
                   events |-> <<TcpConnectEvent(hp.host, hp.port)>>]
        ELSE IF net.peer = "handshake_failed"
             THEN [ok |-> FALSE, err |-> "TLS handshake failed (fingerprint check)",
                   events |-> <<TcpConnectEvent(hp.host, hp.port)>>]
        ELSE IF net.peer = "no_cert"
             THEN [ok |-> FALSE,
                   err |-> "TLS fingerprint check failed: missing peer certificate",
                   events |-> <<TcpConnectEvent(hp.host, hp.port),
                                TlsHandshakeEvent(hp.host, hp.port, "")>>]
        ELSE [ok |-> TRUE, err |-> "",
              events |-> <<TcpConnectEvent(hp.host, hp.port),
                           TlsHandshakeEvent(hp.host, hp.port, net.peer)>>]
        : expected \in {normalize_fingerprint(expected_sha256)},
          hp \in {extract_host_port_from_origin(origin)}})

\* verify_https_fingerprint(origin, expected_sha256): length check, TCP
\* connect, handshake accepting any certificate, then the comparison of the
\* leaf's digest with the normalized expectation.
verify_https_fingerprint(net, origin, expected_sha256) ==
    The({
        IF Len(expected) # FingerprintLen
        THEN [ok |-> FALSE, err |-> "Invalid TLS fingerprint", events |-> <<>>]
        ELSE IF ~hp.ok THEN [ok |-> FALSE, err |-> "Invalid origin URL", events |-> <<>>]
        ELSE IF net.peer = "refused"
             THEN [ok |-> FALSE, err |-> "Failed to connect for TLS fingerprint check",
                   events |-> <<TcpConnectEvent(hp.host, hp.port)>>]
        ELSE IF net.peer = "handshake_failed"
             THEN [ok |-> FALSE, err |-> "TLS handshake failed (fingerprint check)",
                   events |-> <<TcpConnectEvent(hp.host, hp.port)>>]
        ELSE IF net.peer = "no_cert"
             THEN [ok |-> FALSE,
                   err |-> "TLS fingerprint check failed: missing peer certificate",
                   events |-> <<TcpConnectEvent(hp.host, hp.port),
                                TlsHandshakeEvent(hp.host, hp.port, "")>>]
        ELSE IF cert_sha256_hex(net.peer) # expected
             THEN [ok |-> FALSE, err |-> "TLS fingerprint mismatch",
                   events |-> <<TcpConnectEvent(hp.host, hp.port),
                                TlsHandshakeEvent(hp.host, hp.port, net.peer)>>]
        ELSE [ok |-> TRUE, err |-> "",
              events |-> <<TcpConnectEvent(hp.host, hp.port),
                           TlsHandshakeEvent(hp.host, hp.port, net.peer)>>]
        : expected \in {normalize_fingerprint(expected_sha256)},
          hp \in {extract_host_port_from_origin(origin)}})

\* build_reqwest_client: the default client, or one that accepts invalid
\* certificates and host names.
build_reqwest_client(policy) == IF policy = "Strict" THEN "default" ELSE "loose"

\* build_server_client(origin, tls_policy, tls_fingerprint)
build_server_client(net, origin, tls_policy, tls_fingerprint) ==
    IF ~StartsWith(Trim(origin), <<"https://">>)
    THEN [ok |-> TRUE, err |-> "", client |-> "default", events |-> <<>>]
    ELSE IF parse_tls_policy(tls_policy) # "TrustFingerprint"
         THEN [ok |-> TRUE, err |-> "",
               client |-> build_reqwest_client(parse_tls_policy(tls_policy)),
               events |-> <<>>]
    ELSE The({
        IF ~v.ok THEN [ok |-> FALSE, err |-> v.err, client |-> "", events |-> v.events]
        ELSE [ok |-> TRUE, err |-> "", client |-> build_reqwest_client("TrustFingerprint"),
              events |-> v.events]
        : v \in {verify_https_fingerprint(net, origin, tls_fingerprint)}})

\* fetch_server_id(origin, client): GET {origin}/api/server.
fetch_server_id(net, origin, client) ==
    The({
        IF ~net.api_server.ok
        THEN [ok |-> FALSE, err |-> "Failed to request /api/server", val |-> <<>>,
              events |-> ev]
        ELSE IF id = <<>>
             THEN [ok |-> FALSE, err |-> "Missing server_id in /api/server response",
                   val |-> <<>>, events |-> ev]
        ELSE [ok |-> TRUE, err |-> "", val |-> id, events |-> ev]
        : ev \in {<<HttpEvent(client, UrlParse(origin \o <<"/", "api", "/", "server">>))>>},
          id \in {Trim(net.api_server.server_id)}})

\* fetch_plugin_catalog(origin, client): GET {origin}/api/plugins/catalog.
fetch_plugin_catalog(net, origin, client) ==
    The({
        IF ~net.catalog.ok
        THEN [ok |-> FALSE, err |-> "Failed to request /api/plugins/catalog",
              plugins |-> <<>>, events |-> ev]
        ELSE [ok |-> TRUE, err |-> "", plugins |-> net.catalog.plugins, events |-> ev]
        : ev \in {<<HttpEvent(client,
                              UrlParse(origin \o <<"/", "api", "/", "plugins", "/",
                                                   "catalog">>))>>}})

----------------------------------------------------------------------------
(* Plugin store: files of a plugin                                         *)

\* File names are one token.
PluginJsonName == <<"plugin.json">>
CurrentJsonName == <<"current.json">>
StateJsonName == <<"state.json">>

\* File contents other than opaque bytes; anything that is not of the expected
\* kind fails to parse.

ManifestData(plugin_id, version, entry) ==
    [kind |-> "manifest", plugin_id |-> plugin_id, version |-> version, entry |-> entry]

CurrentData(version, enabled) == [kind |-> "current", version |-> version, enabled |-> enabled]

StateData(status, last_error) == [kind |-> "state", status |-> status, last_error |-> last_error]

OkState == StateData("ok", <<>>)

\* plugin_root_dir / plugin_version_dir: Ok(path) or Err.
plugin_root_dir(server_id, plugin_id) == safe_join(PluginsBase, <<server_id, plugin_id>>)

\* The variant of plugin_version_dir that places every plugin's versions in
\* the directory of plugin p.
plugin_version_dir_shared(server_id, plugin_id, version) ==
    safe_join(PluginsBase, <<server_id, <<"p">>, version>>)

plugin_version_dir(server_id, plugin_id, version) ==
    safe_join(PluginsBase, <<server_id, plugin_id, version>>)

\* fs::read_to_string: the content, NotFound, or another I/O error (the path
\* is a directory, or a file stands where a directory of the path should be).
read_to_string(f, p) ==
    IF IsFile(f, p) THEN [ok |-> TRUE, not_found |-> FALSE, data |-> f.files[p]]
    ELSE IF IsDir(f, p) \/ \E a \in Ancestors(p) : IsFile(f, a)
         THEN [ok |-> FALSE, not_found |-> FALSE, data |-> Blob("")]
    ELSE [ok |-> FALSE, not_found |-> TRUE, data |-> Blob("")]

\* read_json_file::<T>: Ok(Some(value)), Ok(None) or Err; kind names T.
read_json_file(f, p, kind) ==
    The({
        IF r.ok /\ r.data.kind = "empty" THEN [ok |-> TRUE, some |-> FALSE, val |-> r.data]
        ELSE IF r.ok /\ r.data.kind = kind THEN [ok |-> TRUE, some |-> TRUE, val |-> r.data]
        ELSE IF r.ok THEN [ok |-> FALSE, some |-> FALSE, val |-> r.data]
        ELSE IF r.not_found THEN [ok |-> TRUE, some |-> FALSE, val |-> r.data]
        ELSE [ok |-> FALSE, some |-> FALSE, val |-> r.data]
        : r \in {read_to_string(f, p)}})

\* write_json_file: ensure_dir, then fs::write.
write_json_file(f, p, data) ==
    The({IF ~d.ok THEN [ok |-> FALSE, fs |-> f] ELSE write_file(d.fs, p, data)
         : d \in {create_dir_all(f, Parent(p))}})

read_current(f, root) == read_json_file(f, Child(root, CurrentJsonName), "current")

write_current(f, root, current) == write_json_file(f, Child(root, CurrentJsonName), current)

\* read_state_file: the stored state, ok/"" when there is none.
read_state_file(f, root) ==
    The({[ok |-> r.ok, val |-> IF r.ok /\ r.some THEN r.val ELSE OkState]
         : r \in {read_json_file(f, Child(root, StateJsonName), "state")}})

write_state_file(f, root, st) == write_json_file(f, Child(root, StateJsonName), st)

\* The tokens of file and directory names in the order of their bytes.
Utf8Order ==
    <<" ", ".", "/", "1", "2", "a", "b", "c", "current.json", "d", "p", "plugin.json", "q",
      "r", "s", "state.json", "storage.json", "z">>

ByteRank(c) == CHOOSE i \in 1..Len(Utf8Order) : Utf8Order[i] = c

\* Ord for String: a sorts before b.
StrLess(a, b) ==
    \/ Len(a) < Len(b) /\ SubSeq(b, 1, Len(a)) = a
    \/ \E k \in 1..Min(Len(a), Len(b)) :
          /\ SubSeq(a, 1, k - 1) = SubSeq(b, 1, k - 1)
          /\ ByteRank(a[k]) < ByteRank(b[k])

\* The variant of BTreeSetToVec that yields the names in descending order.
RECURSIVE BTreeSetToVecDescending(_)
BTreeSetToVecDescending(S) ==
    IF S = {} THEN <<>>
    ELSE The({<<m>> \o BTreeSetToVecDescending(S \ {m})
              : m \in {CHOOSE x \in S : \A y \in S \ {x} : StrLess(y, x)}})

\* BTreeSet<String>::into_iter().collect(): the names in ascending order.
RECURSIVE BTreeSetToVec(_)
BTreeSetToVec(S) ==
    IF S = {} THEN <<>>
    ELSE The({<<m>> \o BTreeSetToVec(S \ {m})
              : m \in {CHOOSE x \in S : \A y \in S \ {x} : StrLess(x, y)}})

\* list_installed_versions: the names of the directories directly below the
\* plugin root (none when the root does not exist), in ascending order.
list_installed_versions(f, root) ==
    IF IsFile(f, root) THEN [ok |-> FALSE, val |-> <<>>]
    ELSE [ok |-> TRUE,
          val |-> BTreeSetToVec({d.comps[Len(d.comps)] :
                     d \in {x \in f.dirs : x.comps # <<>> /\ Parent(x) = root
                                             /\ Trim(x.comps[Len(x.comps)]) # <<>>}})]

NoInstalledState ==
    [installed_versions |-> <<>>, has_current |-> FALSE, current_version |-> <<>>,
     enabled |-> FALSE, status |-> "ok", last_error |-> <<>>]

\* The variant of build_installed_state that reports every plugin with a
\* current.json as enabled.
build_installed_state_enabled_if_current(f, root) ==
    The({
        IF ~versions.ok \/ ~current.ok \/ ~state.ok
        THEN [ok |-> FALSE, val |-> NoInstalledState]
        ELSE [ok |-> TRUE,
              val |-> [installed_versions |-> versions.val,
                       has_current |-> current.some,
                       current_version |-> IF current.some THEN current.val.version
                                           ELSE <<>>,
                       enabled |-> current.some,
                       status |-> state.val.status,
                       last_error |-> state.val.last_error]]
        : versions \in {list_installed_versions(f, root)},
          current \in {read_current(f, root)},
          state \in {read_state_file(f, root)}})

\* build_installed_state: Ok(state) or Err.
build_installed_state(f, root) ==
    The({
        IF ~versions.ok \/ ~current.ok \/ ~state.ok
        THEN [ok |-> FALSE, val |-> NoInstalledState]
        ELSE [ok |-> TRUE,
              val |-> [installed_versions |-> versions.val,
                       has_current |-> current.some,
                       current_version |-> IF current.some THEN current.val.version
                                           ELSE <<>>,
                       enabled |-> IF current.some THEN current.val.enabled ELSE FALSE,
                       status |-> state.val.status,
                       last_error |-> state.val.last_error]]
        : versions \in {list_installed_versions(f, root)},
          current \in {read_current(f, root)},
          state \in {read_state_file(f, root)}})

\* fs::remove_dir_all: everything at and below p goes; NotFound when p does
\* not exist, an error when p is a file.
remove_dir_all(f, p) ==
    LET Below(q) == Len(q.comps) >= Len(p.comps) /\ q.root = p.root
                    /\ SubSeq(q.comps, 1, Len(p.comps)) = p.comps
        keep == {q \in DOMAIN f.files : ~Below(q)}
    IN IF IsFile(f, p) THEN [ok |-> FALSE, not_found |-> FALSE, fs |-> f]
       ELSE IF ~IsDir(f, p) THEN [ok |-> FALSE, not_found |-> TRUE, fs |-> f]
       ELSE [ok |-> TRUE, not_found |-> FALSE,
             fs |-> [dirs |-> {q \in f.dirs : ~Below(q)},
                     files |-> [q \in keep |-> f.files[q]]]]

----------------------------------------------------------------------------
(* Plugin store: install                                                   *)

\* The archives a server offers for plugin "p".
ManifestEntry(plugin_id, version, entry) ==
    ZipEntry(PluginJsonName, ManifestData(plugin_id, version, entry))

FileA == ZipEntry(<<"a">>, Blob("js"))

GoodZip(v) == <<ManifestEntry(PluginP, v, <<"a">>), FileA>>

RootedZip(v) ==
    <<ZipEntry(<<"r", "/", "plugin.json">>, ManifestData(PluginP, v, <<"a">>)),
      ZipEntry(<<"r", "/", "a">>, Blob("js"))>>

PaddedZip(v) == <<ManifestEntry(<<" ", "p">>, v \o <<" ">>, <<"a", " ">>), FileA>>

NoEntryFileZip(v) == <<ManifestEntry(PluginP, v, <<"a">>)>>

DirEntryZip(v) ==
    <<ManifestEntry(PluginP, v, <<"d">>), ZipEntry(<<"d", "/", "b">>, Blob("js"))>>

BlankEntryZip(v) == <<ManifestEntry(PluginP, v, <<" ">>), FileA>>

WrongIdZip(v) == <<ManifestEntry(<<"q">>, v, <<"a">>), FileA>>

NoManifestZip == <<FileA>>

GarbageManifestZip == <<ZipEntry(PluginJsonName, Blob("garbage")), FileA>>

UnsafeZip == <<FileA, ZipEntry(<<".", ".", "/", "a">>, Blob("js"))>>

ForbiddenZip == <<FileA, ZipEntry(NameATs, Blob("ts"))>>

\* Every content a download can deliver, in a fixed order.
KnownBytes ==
    <<GoodZip(Version1), GoodZip(Version2), RootedZip(Version1), PaddedZip(Version1),
      NoEntryFileZip(Version1), DirEntryZip(Version1), BlankEntryZip(Version1),
      WrongIdZip(Version1), NoManifestZip, GarbageManifestZip, UnsafeZip, ForbiddenZip,
      NotAZip, GoodZip(CurrentJsonName)>>

HexLower == <<"a", "b", "c", "d", "e", "f", "0", "1", "2", "3", "4", "5", "6", "7", "8", "9">>

\* sha256_hex: lowercase hex of the digest; distinct contents have distinct
\* digests (the k-th content's digest repeats the k-th hex digit).
sha256_hex(bytes) ==
    LET k == CHOOSE i \in 1..Len(KnownBytes) : KnownBytes[i] = bytes IN Fill(HexLower[k])

\* eq_hash_hex
eq_hash_hex_len(a, b) == Len(Trim(a)) = Len(Trim(b))

eq_hash_hex(a, b) == to_lowercase(Trim(a)) = to_lowercase(Trim(b))

\* PluginRuntimeEntry
RuntimeEntry(server_id, plugin_id, version, entry) ==
    [server_id |-> server_id, plugin_id |-> plugin_id, version |-> version, entry |-> entry]

NoRuntimeEntry == RuntimeEntry(<<>>, <<>>, <<>>, <<>>)

\* The result of a store call: Ok or Err(err), the filesystem and the network
\* events it leaves behind, and what Ok carries: an InstalledPluginState
\* (state), whether an Option is Some (some), the states list_installed
\* returns (list), a PluginRuntimeEntry (entry), a stored value (value).
StoreResult(ok, err, f, events, state) ==
    [ok |-> ok, err |-> err, fs |-> f, events |-> events, state |-> state,
     some |-> FALSE, list |-> {}, entry |-> NoRuntimeEntry, value |-> <<>>]

StoreErr(err, f, events) == StoreResult(FALSE, err, f, events, NoInstalledState)

\* What the opening of a store call leaves: Ok with the origin, the client
\* and the server id, or Err.
Resolved(ok, err, events, origin, client, server_id) ==
    [ok |-> ok, err |-> err, events |-> events, origin |-> origin, client |-> client,
     server_id |-> server_id]

\* The opening of every store call: to_http_origin, build_server_client,
\* fetch_server_id.
resolve_server(net, server_socket, tls_policy, tls_fingerprint) ==
    The({
        IF ~o.ok THEN Resolved(FALSE, o.err, <<>>, <<>>, "", <<>>)
        ELSE The({
            IF ~c.ok THEN Resolved(FALSE, c.err, c.events, o.val, "", <<>>)
            ELSE The({
                IF ~s.ok
                THEN Resolved(FALSE, s.err, c.events \o s.events, o.val, c.client, <<>>)
                ELSE Resolved(TRUE, "", c.events \o s.events, o.val, c.client, s.val)
                : s \in {fetch_server_id(net, o.val, c.client)}})
            : c \in {build_server_client(net, o.val, tls_policy, tls_fingerprint)}})
        : o \in {to_http_origin(server_socket)}})

\* The variant of finish_install that resets state.json right after the
\* unpack, before the manifest is checked.
finish_install_state_first(plat, f, server_id, id, v, bytes) ==
    The({
    IF ~vd.ok THEN StoreErr("Invalid path segment", f, <<>>)
    ELSE The({
    IF ~mk.ok THEN StoreErr("Failed to create dir", f, <<>>)
    ELSE The({
    IF ~un.ok THEN StoreErr("Invalid zip archive", un.fs, <<>>)
    ELSE The({
    IF ~ws.ok THEN StoreErr("Failed to write file", un.fs, <<>>)
    ELSE The({
    IF ~raw.ok THEN StoreErr("Missing plugin.json", ws.fs, <<>>)
    ELSE IF raw.data.kind # "manifest" THEN StoreErr("Invalid plugin.json", ws.fs, <<>>)
    ELSE IF Trim(raw.data.plugin_id) # id
         THEN StoreErr("plugin_id mismatch in manifest", ws.fs, <<>>)
    ELSE IF Trim(raw.data.version) # v
         THEN StoreErr("version mismatch in manifest", ws.fs, <<>>)
    ELSE IF Trim(raw.data.entry) = <<>> THEN StoreErr("Manifest entry is empty", ws.fs, <<>>)
    ELSE The({
    IF ~current.ok THEN StoreErr("Failed to parse JSON", ws.fs, <<>>)
    ELSE The({
    IF ~wc.ok THEN StoreErr("Failed to write file", ws.fs, <<>>)
    ELSE The({
    IF ~st.ok THEN StoreErr("Failed to parse JSON", wc.fs, <<>>)
    ELSE StoreResult(TRUE, "", wc.fs, <<>>, st.val)
    : st \in {build_installed_state(wc.fs, Parent(vd.path))}})
    : wc \in {IF current.some THEN [ok |-> TRUE, fs |-> ws.fs]
              ELSE write_current(ws.fs, Parent(vd.path), CurrentData(v, FALSE))}})
    : current \in {read_current(ws.fs, Parent(vd.path))}})
    : raw \in {read_to_string(ws.fs, Child(vd.path, PluginJsonName))}})
    : ws \in {write_state_file(un.fs, Parent(vd.path), OkState)}})
    : un \in {unpack_plugin_zip(plat, mk.fs, vd.path, bytes)}})
    : mk \in {create_dir_all(f, vd.path)}})
    : vd \in {plugin_version_dir(server_id, id, v)}})

\* Both install variants from the creation of the version directory on:
\* unpack, manifest check, current.json on first install, state.json.
finish_install(plat, f, server_id, id, v, bytes) ==
    The({
    IF ~vd.ok THEN StoreErr("Invalid path segment", f, <<>>)
    ELSE The({
    IF ~mk.ok THEN StoreErr("Failed to create dir", f, <<>>)
    ELSE The({
    IF ~un.ok THEN StoreErr("Invalid zip archive", un.fs, <<>>)
    ELSE The({
    IF ~raw.ok THEN StoreErr("Missing plugin.json", un.fs, <<>>)
    ELSE IF raw.data.kind # "manifest" THEN StoreErr("Invalid plugin.json", un.fs, <<>>)
    ELSE IF Trim(raw.data.plugin_id) # id
         THEN StoreErr("plugin_id mismatch in manifest", un.fs, <<>>)
    ELSE IF Trim(raw.data.version) # v
         THEN StoreErr("version mismatch in manifest", un.fs, <<>>)
    ELSE IF Trim(raw.data.entry) = <<>> THEN StoreErr("Manifest entry is empty", un.fs, <<>>)
    ELSE The({
    IF ~current.ok THEN StoreErr("Failed to parse JSON", un.fs, <<>>)
    ELSE The({
    IF ~wc.ok THEN StoreErr("Failed to write file", un.fs, <<>>)
    ELSE The({
    IF ~ws.ok THEN StoreErr("Failed to write file", wc.fs, <<>>)
    ELSE The({
    IF ~st.ok THEN StoreErr("Failed to parse JSON", ws.fs, <<>>)
    ELSE StoreResult(TRUE, "", ws.fs, <<>>, st.val)
    : st \in {build_installed_state(ws.fs, Parent(vd.path))}})
    : ws \in {write_state_file(wc.fs, Parent(vd.path), OkState)}})
    : wc \in {IF current.some THEN [ok |-> TRUE, fs |-> un.fs]
              ELSE write_current(un.fs, Parent(vd.path), CurrentData(v, FALSE))}})
    : current \in {read_current(un.fs, Parent(vd.path))}})
    : raw \in {read_to_string(un.fs, Child(vd.path, PluginJsonName))}})
    : un \in {unpack_plugin_zip(plat, mk.fs, vd.path, bytes)}})
    : mk \in {create_dir_all(f, vd.path)}})
    : vd \in {plugin_version_dir(server_id, id, v)}})

\* The variant of download_client that downloads with the server client.
download_client_always_server(base, server_client, download_parsed) == server_client

\* The download of both install variants: the server client for a same-origin
\* URL, a default client for any other.
download_client(base, server_client, download_parsed) ==
    IF is_same_origin(download_parsed, base) THEN server_client ELSE "default"

\* install_from_url
install_from_url(plat, net, f, server_socket, plugin_id, version, download_url, sha256_expected, tls_policy, tls_fingerprint) ==
    The({
    IF ~pre.ok THEN StoreErr(pre.err, f, pre.events)
    ELSE IF id = <<>> THEN StoreErr("Missing plugin_id", f, pre.events)
    ELSE IF v = <<>> THEN StoreErr("Missing version", f, pre.events)
    ELSE IF url = <<>> THEN StoreErr("Missing download url", f, pre.events)
    ELSE IF sha = <<>> THEN StoreErr("Missing sha256", f, pre.events)
    ELSE The({
    IF ~base.ok THEN StoreErr("Invalid server origin", f, pre.events)
    ELSE IF ~download_parsed.ok THEN StoreErr("Invalid download url", f, pre.events)
    ELSE The({
    IF ~net.download.ok THEN StoreErr("Failed to download plugin zip", f, ev)
    ELSE IF ~eq_hash_hex(sha256_hex(net.download.bytes), sha)
         THEN StoreErr("SHA256 mismatch", f, ev)
    ELSE The({[fin EXCEPT !.events = ev]
              : fin \in {finish_install(plat, f, pre.server_id, id, v, net.download.bytes)}})
    : ev \in {Append(pre.events,
                     HttpEvent(download_client(base, pre.client, download_parsed),
                               download_parsed))}})
    : base \in {UrlParse(pre.origin)}, download_parsed \in {UrlParse(url)}})
    : pre \in {resolve_server(net, server_socket, tls_policy, tls_fingerprint)},
      id \in {Trim(plugin_id)}, v \in {Trim(version)}, url \in {Trim(download_url)},
      sha \in {Trim(sha256_expected)}})

\* A catalog without an entry for the plugin.
NoCatalogItem ==
    [plugin_id |-> <<>>, version |-> <<>>, has_download |-> FALSE, url |-> <<>>,
     sha256 |-> <<>>]

\* install_from_server_catalog; expected_version None is the empty string.
install_from_server_catalog(plat, net, f, server_socket, plugin_id, expected_version, tls_policy, tls_fingerprint) ==
    The({
    IF ~pre.ok THEN StoreErr(pre.err, f, pre.events)
    ELSE The({
    IF ~catalog.ok THEN StoreErr(catalog.err, f, pre.events \o catalog.events)
    ELSE The({
    IF hits = <<>> THEN StoreErr("Plugin not found in catalog", f, ev1)
    ELSE The({
    IF want # <<>> /\ want # Trim(target.version) THEN StoreErr("Version mismatch", f, ev1)
    ELSE IF ~target.has_download THEN StoreErr("Missing download info", f, ev1)
    ELSE IF Trim(target.url) = <<>> \/ Trim(target.sha256) = <<>>
         THEN StoreErr("Invalid download info", f, ev1)
    ELSE The({
    IF ~base.ok THEN StoreErr("Invalid server origin", f, ev1)
    ELSE IF ~download_parsed.ok THEN StoreErr("Invalid download url", f, ev1)
    ELSE The({
    IF ~net.download.ok THEN StoreErr("Failed to download plugin zip", f, ev)
    ELSE IF ~eq_hash_hex(sha256_hex(net.download.bytes), target.sha256)
         THEN StoreErr("SHA256 mismatch", f, ev)
    ELSE The({[fin EXCEPT !.events = ev]
              : fin \in {finish_install(plat, f, pre.server_id, plugin_id,
                                        Trim(target.version), net.download.bytes)}})
    : ev \in {Append(ev1, HttpEvent(download_client(base, pre.client, download_parsed),
                                    download_parsed))}})
    : base \in {UrlParse(pre.origin)},
      download_parsed \in {UrlParse(
          IF target.url[1] \in {"http://", "https://"} THEN target.url
          ELSE TrimEndMatches(pre.origin, "/") \o <<"/">>
               \o TrimStartMatches(target.url, "/"))}})
    : target \in {hits[1]}, want \in {Trim(expected_version)}})
    : hits \in {SelectSeq(catalog.plugins, LAMBDA p : p.plugin_id = plugin_id)},
      ev1 \in {pre.events \o catalog.events}})
    : catalog \in {fetch_plugin_catalog(net, pre.origin, pre.client)}})
    : pre \in {resolve_server(net, server_socket, tls_policy, tls_fingerprint)}})

----------------------------------------------------------------------------
(* Plugin store: enable, disable, switch_version, set_failed, clear_error, *)
(* uninstall                                                               *)

\* enable
enable(plat, net, f, server_socket, plugin_id, tls_policy, tls_fingerprint) ==
    The({
    IF ~pre.ok THEN StoreErr(pre.err, f, pre.events)
    ELSE The({
    IF ~root.ok THEN StoreErr("Invalid path segment", f, pre.events)
    ELSE The({
    IF ~current.ok THEN StoreErr("Failed to parse JSON", f, pre.events)
    ELSE IF ~current.some THEN StoreErr("Plugin is not installed", f, pre.events)
    ELSE The({
    IF ~vd.ok THEN StoreErr("Invalid path segment", f, pre.events)
    ELSE The({
    IF ~raw.ok THEN StoreErr("Missing plugin.json", f, pre.events)
    ELSE IF raw.data.kind # "manifest" THEN StoreErr("Invalid plugin.json", f, pre.events)
    ELSE The({
    IF ~Exists(f, PathJoin(plat, vd.path, entry_rel))
    THEN StoreErr("Missing plugin entry",
                  write_state_file(f, root.path,
                                   StateData("failed",
                                             <<"Missing plugin entry: ">> \o entry_rel)).fs,
                  pre.events)
    ELSE The({
    IF ~wc.ok THEN StoreErr("Failed to write file", f, pre.events)
    ELSE The({
    IF ~ws.ok THEN StoreErr("Failed to write file", wc.fs, pre.events)
    ELSE The({
    IF ~st.ok THEN StoreErr("Failed to parse JSON", ws.fs, pre.events)
    ELSE StoreResult(TRUE, "", ws.fs, pre.events, st.val)
    : st \in {build_installed_state(ws.fs, root.path)}})
    : ws \in {write_state_file(wc.fs, root.path, OkState)}})
    : wc \in {write_current(f, root.path, [current.val EXCEPT !.enabled = TRUE])}})
    : entry_rel \in {Trim(raw.data.entry)}})
    : raw \in {read_to_string(f, Child(vd.path, PluginJsonName))}})
    : vd \in {plugin_version_dir(pre.server_id, plugin_id, current.val.version)}})
    : current \in {read_current(f, root.path)}})
    : root \in {plugin_root_dir(pre.server_id, plugin_id)}})
    : pre \in {resolve_server(net, server_socket, tls_policy, tls_fingerprint)}})

\* The variant of set_failed that stores the message as given.
set_failed_untrimmed(net, f, server_socket, plugin_id, message, tls_policy, tls_fingerprint) ==
    The({
    IF ~pre.ok THEN StoreErr(pre.err, f, pre.events)
    ELSE The({
    IF ~root.ok THEN StoreErr("Invalid path segment", f, pre.events)
    ELSE The({
    IF ~current.ok THEN StoreErr("Failed to parse JSON", f, pre.events)
    ELSE IF ~current.some THEN StoreErr("Plugin is not installed", f, pre.events)
    ELSE The({
    IF ~wc.ok THEN StoreErr("Failed to write file", f, pre.events)
    ELSE The({
    IF ~ws.ok THEN StoreErr("Failed to write file", wc.fs, pre.events)
    ELSE The({
    IF ~st.ok THEN StoreErr("Failed to parse JSON", ws.fs, pre.events)
    ELSE StoreResult(TRUE, "", ws.fs, pre.events, st.val)
    : st \in {build_installed_state(ws.fs, root.path)}})
    : ws \in {write_state_file(wc.fs, root.path, StateData("failed", message))}})
    : wc \in {write_current(f, root.path, [current.val EXCEPT !.enabled = FALSE])}})
    : current \in {read_current(f, root.path)}})
    : root \in {plugin_root_dir(pre.server_id, plugin_id)}})
    : pre \in {resolve_server(net, server_socket, tls_policy, tls_fingerprint)}})

\* set_failed
set_failed(net, f, server_socket, plugin_id, message, tls_policy, tls_fingerprint) ==
    The({
    IF ~pre.ok THEN StoreErr(pre.err, f, pre.events)
    ELSE The({
    IF ~root.ok THEN StoreErr("Invalid path segment", f, pre.events)
    ELSE The({
    IF ~current.ok THEN StoreErr("Failed to parse JSON", f, pre.events)
    ELSE IF ~current.some THEN StoreErr("Plugin is not installed", f, pre.events)
    ELSE The({
    IF ~wc.ok THEN StoreErr("Failed to write file", f, pre.events)
    ELSE The({
    IF ~ws.ok THEN StoreErr("Failed to write file", wc.fs, pre.events)
    ELSE The({
    IF ~st.ok THEN StoreErr("Failed to parse JSON", ws.fs, pre.events)
    ELSE StoreResult(TRUE, "", ws.fs, pre.events, st.val)
    : st \in {build_installed_state(ws.fs, root.path)}})
    : ws \in {write_state_file(wc.fs, root.path, StateData("failed", Trim(message)))}})
    : wc \in {write_current(f, root.path, [current.val EXCEPT !.enabled = FALSE])}})
    : current \in {read_current(f, root.path)}})
    : root \in {plugin_root_dir(pre.server_id, plugin_id)}})
    : pre \in {resolve_server(net, server_socket, tls_policy, tls_fingerprint)}})

\* clear_error
clear_error(net, f, server_socket, plugin_id, tls_policy, tls_fingerprint) ==
    The({
    IF ~pre.ok THEN StoreErr(pre.err, f, pre.events)
    ELSE The({
    IF ~root.ok THEN StoreErr("Invalid path segment", f, pre.events)
    ELSE The({
    IF ~ws.ok THEN StoreErr("Failed to write file", f, pre.events)
    ELSE The({
    IF ~st.ok THEN StoreErr("Failed to parse JSON", ws.fs, pre.events)
    ELSE StoreResult(TRUE, "", ws.fs, pre.events, st.val)
    : st \in {build_installed_state(ws.fs, root.path)}})
    : ws \in {write_state_file(f, root.path, OkState)}})
    : root \in {plugin_root_dir(pre.server_id, plugin_id)}})
    : pre \in {resolve_server(net, server_socket, tls_policy, tls_fingerprint)}})

\* disable
disable(net, f, server_socket, plugin_id, tls_policy, tls_fingerprint) ==
    The({
    IF ~pre.ok THEN StoreErr(pre.err, f, pre.events)
    ELSE The({
    IF ~root.ok THEN StoreErr("Invalid path segment", f, pre.events)
    ELSE The({
    IF ~current.ok THEN StoreErr("Failed to parse JSON", f, pre.events)
    ELSE IF ~current.some THEN StoreErr("Plugin is not installed", f, pre.events)
    ELSE The({
    IF ~wc.ok THEN StoreErr("Failed to write file", f, pre.events)
    ELSE The({
    IF ~st.ok THEN StoreErr("Failed to parse JSON", wc.fs, pre.events)
    ELSE StoreResult(TRUE, "", wc.fs, pre.events, st.val)
    : st \in {build_installed_state(wc.fs, root.path)}})
    : wc \in {write_current(f, root.path, [current.val EXCEPT !.enabled = FALSE])}})
    : current \in {read_current(f, root.path)}})
    : root \in {plugin_root_dir(pre.server_id, plugin_id)}})
    : pre \in {resolve_server(net, server_socket, tls_policy, tls_fingerprint)}})

\* switch_version
switch_version(net, f, server_socket, plugin_id, version, tls_policy, tls_fingerprint) ==
    The({
    IF ~pre.ok THEN StoreErr(pre.err, f, pre.events)
    ELSE IF v = <<>> THEN StoreErr("Missing version", f, pre.events)
    ELSE The({
    IF ~vd.ok THEN StoreErr("Invalid path segment", f, pre.events)
    ELSE IF ~Exists(f, vd.path) THEN StoreErr("Version is not installed", f, pre.events)
    ELSE The({
    IF ~current.ok THEN StoreErr("Failed to parse JSON", f, pre.events)
    ELSE The({
    IF ~wc.ok THEN StoreErr("Failed to write file", f, pre.events)
    ELSE The({
    IF ~st.ok THEN StoreErr("Failed to parse JSON", wc.fs, pre.events)
    ELSE StoreResult(TRUE, "", wc.fs, pre.events, st.val)
    : st \in {build_installed_state(wc.fs, Parent(vd.path))}})
    : wc \in {write_current(f, Parent(vd.path),
                            IF current.some THEN [current.val EXCEPT !.version = v]
                            ELSE CurrentData(v, FALSE))}})
    : current \in {read_current(f, Parent(vd.path))}})
    : vd \in {plugin_version_dir(pre.server_id, plugin_id, v)}})
    : pre \in {resolve_server(net, server_socket, tls_policy, tls_fingerprint)},
      v \in {Trim(version)}})

\* The variant of uninstall for which a missing plugin root is an error.
uninstall_not_found_fails(net, f, server_socket, plugin_id, tls_policy, tls_fingerprint) ==
    The({
    IF ~pre.ok THEN StoreErr(pre.err, f, pre.events)
    ELSE The({
    IF ~root.ok THEN StoreErr("Invalid path segment", f, pre.events)
    ELSE The({
    IF rm.ok THEN StoreResult(TRUE, "", rm.fs, pre.events, NoInstalledState)
    ELSE StoreErr("Failed to remove dir", f, pre.events)
    : rm \in {remove_dir_all(f, root.path)}})
    : root \in {plugin_root_dir(pre.server_id, plugin_id)}})
    : pre \in {resolve_server(net, server_socket, tls_policy, tls_fingerprint)}})

\* uninstall
uninstall(net, f, server_socket, plugin_id, tls_policy, tls_fingerprint) ==
    The({
    IF ~pre.ok THEN StoreErr(pre.err, f, pre.events)
    ELSE The({
    IF ~root.ok THEN StoreErr("Invalid path segment", f, pre.events)
    ELSE The({
    IF rm.ok \/ rm.not_found THEN StoreResult(TRUE, "", rm.fs, pre.events, NoInstalledState)
    ELSE StoreErr("Failed to remove dir", f, pre.events)
    : rm \in {remove_dir_all(f, root.path)}})
    : root \in {plugin_root_dir(pre.server_id, plugin_id)}})
    : pre \in {resolve_server(net, server_socket, tls_policy, tls_fingerprint)}})

----------------------------------------------------------------------------
(* Plugin store: list_installed, get_installed, get_runtime_entry,         *)
(* get_runtime_entry_for_version, storage_get, storage_set                 *)

\* The states of the plugins whose directories are named by names, or the
\* failure of one of them: [ok, list].
installed_states(f, server_id, names) ==
    The({
    IF \E r \in built : ~r.ok THEN [ok |-> FALSE, list |-> {}]
    ELSE [ok |-> TRUE, list |-> {[plugin_id |-> r.plugin_id, state |-> r.val] : r \in built}]
    : built \in {{The({
          IF ~root.ok THEN [ok |-> FALSE, plugin_id |-> n, val |-> NoInstalledState]
          ELSE The({[ok |-> st.ok, plugin_id |-> n, val |-> st.val]
                    : st \in {build_installed_state(f, root.path)}})
          : root \in {plugin_root_dir(server_id, n)}}) : n \in names}}})

\* list_installed
list_installed(plat, net, f, server_socket, tls_policy, tls_fingerprint) ==
    The({
    IF ~pre.ok THEN StoreErr(pre.err, f, pre.events)
    ELSE The({
    IF IsFile(f, base) \/ \E a \in Ancestors(base) : IsFile(f, a)
    THEN StoreErr("Failed to read dir", f, pre.events)
    ELSE The({
    IF ~states.ok THEN StoreErr("Failed to build state", f, pre.events)
    ELSE [StoreResult(TRUE, "", f, pre.events, NoInstalledState)
             EXCEPT !.list = states.list]
    : states \in {installed_states(f, pre.server_id,
                     {d.comps[Len(d.comps)] :
                        d \in {x \in f.dirs : x.comps # <<>> /\ Parent(x) = base
                                                /\ Trim(x.comps[Len(x.comps)]) # <<>>}})}})
    : base \in {PathJoin(plat, PluginsBase, pre.server_id)}})
    : pre \in {resolve_server(net, server_socket, tls_policy, tls_fingerprint)}})

\* get_installed: Ok(None) when nothing stands at the plugin root.
get_installed(net, f, server_socket, plugin_id, tls_policy, tls_fingerprint) ==
    The({
    IF ~pre.ok THEN StoreErr(pre.err, f, pre.events)
    ELSE The({
    IF ~root.ok THEN StoreErr("Invalid path segment", f, pre.events)
    ELSE IF ~Exists(f, root.path) THEN StoreResult(TRUE, "", f, pre.events, NoInstalledState)
    ELSE The({
    IF ~st.ok THEN StoreErr("Failed to build state", f, pre.events)
    ELSE [StoreResult(TRUE, "", f, pre.events, st.val) EXCEPT !.some = TRUE]
    : st \in {build_installed_state(f, root.path)}})
    : root \in {plugin_root_dir(pre.server_id, plugin_id)}})
    : pre \in {resolve_server(net, server_socket, tls_policy, tls_fingerprint)}})

\* get_runtime_entry_for_version_inner
get_runtime_entry_for_version_inner(f, events, server_id, plugin_id, version) ==
    The({
    IF ~vd.ok THEN StoreErr("Invalid path segment", f, events)
    ELSE The({
    IF ~raw.ok THEN StoreErr("Failed to read manifest", f, events)
    ELSE IF raw.data.kind # "manifest" THEN StoreErr("Invalid plugin.json", f, events)
    ELSE IF Trim(raw.data.entry) = <<>> THEN StoreErr("Manifest entry is empty", f, events)
    ELSE [StoreResult(TRUE, "", f, events, NoInstalledState)
             EXCEPT !.entry = RuntimeEntry(server_id, plugin_id, version,
                                           Trim(raw.data.entry))]
    : raw \in {read_to_string(f, Child(vd.path, PluginJsonName))}})
    : vd \in {plugin_version_dir(server_id, plugin_id, version)}})

\* get_runtime_entry
get_runtime_entry(net, f, server_socket, plugin_id, tls_policy, tls_fingerprint) ==
    The({
    IF ~pre.ok THEN StoreErr(pre.err, f, pre.events)
    ELSE The({
    IF ~root.ok THEN StoreErr("Invalid path segment", f, pre.events)
    ELSE The({
    IF ~current.ok THEN StoreErr("Failed to parse JSON", f, pre.events)
    ELSE IF ~current.some THEN StoreErr("Plugin is not installed", f, pre.events)
    ELSE get_runtime_entry_for_version_inner(f, pre.events, pre.server_id, plugin_id,
                                             current.val.version)
    : current \in {read_current(f, root.path)}})
    : root \in {plugin_root_dir(pre.server_id, plugin_id)}})
    : pre \in {resolve_server(net, server_socket, tls_policy, tls_fingerprint)}})

\* get_runtime_entry_for_version
get_runtime_entry_for_version(net, f, server_socket, plugin_id, version, tls_policy, tls_fingerprint) ==
    The({
    IF ~pre.ok THEN StoreErr(pre.err, f, pre.events)
    ELSE IF v = <<>> THEN StoreErr("Missing version", f, pre.events)
    ELSE get_runtime_entry_for_version_inner(f, pre.events, pre.server_id, plugin_id, v)
    : pre \in {resolve_server(net, server_socket, tls_policy, tls_fingerprint)},
      v \in {Trim(version)}})

StorageJsonName == <<"storage.json">>

\* storage.json: a map from keys to values.
StorageData(map) == [kind |-> "storage", map |-> map]

\* storage_get: Ok(Some(value)), Ok(None) or Err.
storage_get(net, f, server_socket, plugin_id, key, tls_policy, tls_fingerprint) ==
    The({
    IF ~pre.ok THEN StoreErr(pre.err, f, pre.events)
    ELSE The({
    IF ~root.ok THEN StoreErr("Invalid path segment", f, pre.events)
    ELSE The({
    IF ~raw.ok /\ raw.not_found THEN StoreResult(TRUE, "", f, pre.events, NoInstalledState)
    ELSE IF ~raw.ok THEN StoreErr("Failed to read storage.json", f, pre.events)
    ELSE IF raw.data.kind # "storage" THEN StoreErr("Invalid storage.json", f, pre.events)
    ELSE IF key \notin DOMAIN raw.data.map
         THEN StoreResult(TRUE, "", f, pre.events, NoInstalledState)
    ELSE [StoreResult(TRUE, "", f, pre.events, NoInstalledState)
             EXCEPT !.some = TRUE, !.value = raw.data.map[key]]
    : raw \in {read_to_string(f, Child(root.path, StorageJsonName))}})
    : root \in {plugin_root_dir(pre.server_id, plugin_id)}})
    : pre \in {resolve_server(net, server_socket, tls_policy, tls_fingerprint)}})

\* storage_set
storage_set(net, f, server_socket, plugin_id, key, value, tls_policy, tls_fingerprint) ==
    The({
    IF ~pre.ok THEN StoreErr(pre.err, f, pre.events)
    ELSE The({
    IF ~root.ok THEN StoreErr("Invalid path segment", f, pre.events)
    ELSE The({
    IF ~raw.ok /\ ~raw.not_found THEN StoreErr("Failed to read storage.json", f, pre.events)
    ELSE IF raw.ok /\ raw.data.kind # "storage"
         THEN StoreErr("Invalid storage.json", f, pre.events)
    ELSE The({
    IF ~mk.ok THEN StoreErr("Failed to create dir", f, pre.events)
    ELSE The({
    IF ~w.ok THEN StoreErr("Failed to write", mk.fs, pre.events)
    ELSE StoreResult(TRUE, "", w.fs, pre.events, NoInstalledState)
    : w \in {write_file(mk.fs, Child(root.path, StorageJsonName),
                        StorageData([k \in (IF raw.ok THEN DOMAIN raw.data.map ELSE {})
                                            \cup {key} |->
                                        IF k = key THEN value ELSE raw.data.map[k]]))}})
    : mk \in {create_dir_all(f, root.path)}})
    : raw \in {read_to_string(f, Child(root.path, StorageJsonName))}})
    : root \in {plugin_root_dir(pre.server_id, plugin_id)}})
    : pre \in {resolve_server(net, server_socket, tls_policy, tls_fingerprint)}})

----------------------------------------------------------------------------
(* Same-origin fetch proxy and the JSON API client                         *)

\* reqwest::Method::from_bytes of the trimmed, uppercased method: standard
\* methods parse, the empty string does not.
method_is_valid(method) == Trim(method) # <<>>

\* The variant of network_fetch that compares hosts only.
network_fetch_host_only(net, f, server_socket, url, method, tls_policy, tls_fingerprint) ==
    The({
    IF ~o.ok THEN StoreErr(o.err, f, <<>>)
    ELSE The({
    IF ~c.ok THEN StoreErr(c.err, f, c.events)
    ELSE The({
    IF ~base.ok THEN StoreErr("Invalid server origin", f, c.events)
    ELSE IF raw_url = <<>> THEN StoreErr("Missing url", f, c.events)
    ELSE The({
    IF ~target.ok THEN StoreErr("Invalid url", f, c.events)
    ELSE IF target.host # base.host
         THEN StoreErr("Network access denied: cross-origin", f, c.events)
    ELSE IF ~method_is_valid(method) THEN StoreErr("Invalid method", f, c.events)
    ELSE IF ~net.api_server.ok
         THEN StoreErr("Request failed", f, Append(c.events, HttpEvent(c.client, target)))
    ELSE StoreResult(TRUE, "", f, Append(c.events, HttpEvent(c.client, target)),
                     NoInstalledState)
    : target \in {UrlParse(IF raw_url[1] = "/" THEN TrimEndMatches(o.val, "/") \o raw_url
                           ELSE raw_url)}})
    : base \in {UrlParse(o.val)}, raw_url \in {Trim(url)}})
    : c \in {build_server_client(net, o.val, tls_policy, tls_fingerprint)}})
    : o \in {to_http_origin(server_socket)}})

\* network_fetch
network_fetch(net, f, server_socket, url, method, tls_policy, tls_fingerprint) ==
    The({
    IF ~o.ok THEN StoreErr(o.err, f, <<>>)
    ELSE The({
    IF ~c.ok THEN StoreErr(c.err, f, c.events)
    ELSE The({
    IF ~base.ok THEN StoreErr("Invalid server origin", f, c.events)
    ELSE IF raw_url = <<>> THEN StoreErr("Missing url", f, c.events)
    ELSE The({
    IF ~target.ok THEN StoreErr("Invalid url", f, c.events)
    ELSE IF ~is_same_origin(target, base)
         THEN StoreErr("Network access denied: cross-origin", f, c.events)
    ELSE IF ~method_is_valid(method) THEN StoreErr("Invalid method", f, c.events)
    ELSE IF ~net.api_server.ok
         THEN StoreErr("Request failed", f, Append(c.events, HttpEvent(c.client, target)))
    ELSE StoreResult(TRUE, "", f, Append(c.events, HttpEvent(c.client, target)),
                     NoInstalledState)
    : target \in {UrlParse(IF raw_url[1] = "/" THEN TrimEndMatches(o.val, "/") \o raw_url
                           ELSE raw_url)}})
    : base \in {UrlParse(o.val)}, raw_url \in {Trim(url)}})
    : c \in {build_server_client(net, o.val, tls_policy, tls_fingerprint)}})
    : o \in {to_http_origin(server_socket)}})

\* s contains the substring sub.
ContainsSeq(s, sub) == \E i \in 1..(Len(s) - Len(sub) + 1) : SubSeq(s, i, i + Len(sub) - 1) = sub

\* api_request_json
api_request_json(net, f, server_socket, method, path, tls_policy, tls_fingerprint) ==
    The({
    IF socket = <<>> THEN StoreErr("Missing server_socket", f, <<>>)
    ELSE IF Trim(method) = <<>> THEN StoreErr("Missing method", f, <<>>)
    ELSE IF ~StartsWith(p, <<"/", "api", "/">>)
         THEN StoreErr("Invalid path: must start with /api/", f, <<>>)
    ELSE IF ContainsSeq(p, <<".", ".">>) THEN StoreErr("Invalid path: contains '..'", f, <<>>)
    ELSE The({
    IF ~o.ok THEN StoreErr(o.err, f, <<>>)
    ELSE The({
    IF ~v.ok THEN StoreErr(v.err, f, v.events)
    ELSE The({
    IF ~net.api_server.ok THEN StoreErr("Failed to send request", f, ev)
    ELSE StoreResult(TRUE, "", f, ev, NoInstalledState)
    : ev \in {Append(v.events,
                     HttpEvent(build_reqwest_client(parse_tls_policy(tls_policy)),
                               UrlParse(o.val \o p)))}})
    : v \in {IF parse_tls_policy(tls_policy) = "TrustFingerprint"
             THEN verify_https_fingerprint(net, o.val, tls_fingerprint)
             ELSE [ok |-> TRUE, err |-> "", events |-> <<>>]}})
    : o \in {to_http_origin(socket)}})
    : socket \in {Trim(server_socket)}, p \in {Trim(path)}})

----------------------------------------------------------------------------
(* Calls into the store and the API client                                 *)

\* The environment of one call: the TLS peer at the origin's address, the
\* answers to GET /api/server and GET /api/plugins/catalog, and the download.
Net(peer, server_ok, server_id, plugins, download_ok, bytes) ==
    [peer |-> peer,
     api_server |-> [ok |-> server_ok, server_id |-> server_id],
     catalog |-> [ok |-> server_ok, plugins |-> plugins],
     download |-> [ok |-> download_ok, bytes |-> bytes]]

CatalogItem(plugin_id, version, url, sha256) ==
    [plugin_id |-> plugin_id, version |-> version, has_download |-> TRUE, url |-> url,
     sha256 |-> sha256]

\* A call and its arguments; None is the empty string.
Request(op, server_socket, tls_policy, tls_fingerprint, plugin_id, version, url, sha256, message, net) ==
    [op |-> op, server_socket |-> server_socket, tls_policy |-> tls_policy,
     tls_fingerprint |-> tls_fingerprint, plugin_id |-> plugin_id, version |-> version,
     url |-> url, sha256 |-> sha256, message |-> message, net |-> net]

----------------------------------------------------------------------------
(* Inputs of the calls                                                     *)

Range(q) == {q[i] : i \in 1..Len(q)}

UpperChar(c) ==
    CASE c = "a" -> "A" [] c = "b" -> "B" [] c = "c" -> "C"
      [] c = "d" -> "D" [] c = "e" -> "E" [] c = "f" -> "F"
      [] OTHER -> c

to_uppercase(s) == [i \in 1..Len(s) |-> UpperChar(s[i])]

\* tcp://a (origin http://a) and tls://a:443 (origin https://a)
HttpSocket == <<"tcp://", "a">>
TlsSocket == <<"tls://", "a", ":", "443">>

\* A server that answers with server id "s" and delivers bytes.
GoodNet(bytes) == Net("certA", TRUE, ServerS, <<>>, TRUE, bytes)

\* Expected digests handed in for a download of bytes: the digest itself, in
\* upper case, padded with blanks, cut short, that of other bytes, none.
ShaVariants(bytes) ==
    LET d == sha256_hex(bytes)
        other == IF bytes = NotAZip THEN GoodZip(Version1) ELSE NotAZip
    IN {d, to_uppercase(d), <<" ">> \o d \o <<" ">>, SubSeq(d, 1, FingerprintLen - 1),
        sha256_hex(other), <<>>}

DownloadUrl == <<"http://", "a", "/", "z">>

\* install_from_url against an http origin: every known content under every
\* expected digest, as versions "1", "2", "1 " and "current.json".
InstallUrlRequests(bytes) ==
    {Request("install_from_url", HttpSocket, <<>>, <<>>, pid, ver, DownloadUrl, sha, <<>>,
             GoodNet(bytes)) :
        pid \in {PluginP, <<" ", "p">>},
        ver \in {Version1, Version2, <<"1", " ">>, CurrentJsonName},
        sha \in ShaVariants(bytes)}

\* Environments in which a catalog install stops early: an empty catalog, one
\* that lists another plugin only, an entry without download info, with a
\* blank URL, a catalog request that fails, a download that fails.
CatalogFailures(bytes) ==
    {Net("certA", TRUE, ServerS, plugins, TRUE, bytes) :
        plugins \in {<<>>,
                     <<CatalogItem(<<"q">>, Version1, <<"/", "z">>, sha256_hex(bytes))>>,
                     <<[CatalogItem(PluginP, Version1, <<"/", "z">>, sha256_hex(bytes))
                           EXCEPT !.has_download = FALSE]>>,
                     <<CatalogItem(PluginP, Version1, <<" ">>, sha256_hex(bytes))>>}}
    \cup {[Net("certA", TRUE, ServerS,
               <<CatalogItem(PluginP, Version1, <<"/", "z">>, sha256_hex(bytes))>>, TRUE, bytes)
              EXCEPT !.catalog.ok = FALSE],
          Net("certA", TRUE, ServerS,
              <<CatalogItem(PluginP, Version1, <<"/", "z">>, sha256_hex(bytes))>>, FALSE, bytes)}

\* install_from_server_catalog against an http origin: the catalog names the
\* version, the URL (absolute or relative) and the digest.
InstallCatalogRequests(bytes) ==
    {Request("install_from_server_catalog", HttpSocket, <<>>, <<>>, PluginP, want, <<>>, <<>>,
             <<>>,
             Net("certA", TRUE, ServerS, <<CatalogItem(PluginP, ver, url, sha)>>, TRUE, bytes)) :
        want \in {<<>>, Version2},
        ver \in {Version1, <<"1", " ">>, CurrentJsonName},
        url \in {<<"/", "z">>, <<"z">>, <<"http://", "b", "/", "z">>},
        sha \in ShaVariants(bytes)}
    \cup {Request("install_from_server_catalog", HttpSocket, <<>>, <<>>, PluginP, <<>>, <<>>,
                  <<>>, <<>>, net) : net \in CatalogFailures(bytes)}

\* Server sockets of the calls that vary the TLS setup.
FpA == Fill("a")

NetSockets ==
    {TlsSocket, HttpSocket,
     <<"tls://", "a", ":", "8443">>, <<"https://", "a">>, <<"wss://", "A">>,
     <<"tls-insecure://", "a">>, <<"a", ":", "443">>,
     <<"tls-fp://">> \o FpA \o <<"@", "a", ":", "443">>,
     <<"tcp://", "a", ":", "x">>, <<>>}

\* Configured fingerprints: certA's digest plain, in upper case, padded, with
\* colons between the digits, followed by non-hex characters; one digit short,
\* one digit long, none, no hex digit at all; certB's digest.
WithColons(d) == [i \in 1..(2 * Len(d) - 1) |-> IF i % 2 = 1 THEN d[(i + 1) \div 2] ELSE ":"]

Fingerprints ==
    {FpA, to_uppercase(FpA), <<" ">> \o FpA \o <<" ">>, WithColons(FpA), FpA \o <<"z", "z">>,
     SubSeq(FpA, 1, FingerprintLen - 1), FpA \o <<"a">>, <<>>, Fill("z"), Fill("b")}

\* (policy, fingerprint) pairs: every fingerprint under trust_fingerprint, none
\* and certA's under the other policies.
TlsSetups ==
    ({<<"trust_fingerprint">>, <<" ", "trust_fingerprint", " ">>} \X Fingerprints)
    \cup ({<<>>, <<"strict">>, <<"insecure">>, <<"TRUST_FINGERPRINT">>} \X {<<>>, FpA})

\* Targets of network_fetch and download URLs.
TargetUrls ==
    {<<"/", "x">>, <<"/", "/", "b", "/", "x">>,
     <<"https://", "a", "/", "x">>, <<"https://", "a", ":", "443", "/", "x">>,
     <<"HTTPS://", "A", "/", "x">>, <<"https://", "b", "@", "a", "/", "x">>,
     <<"https://", "b", "/", "x">>, <<"https://", "a", ":", "8443", "/", "x">>,
     <<"http://", "a", "/", "x">>, <<"http://", "a", ":", "443", "/", "x">>,
     <<"https://", "a", "@", "b", "/", "x">>, <<"https://", "a", "\\", "@", "b">>,
     <<"ftp://", "a", "/", "x">>, <<"x">>, <<" ">>}

ApiPaths == {<<"/", "api", "/", "x">>, <<"/", "x">>, <<"/", "api", "/", ".", ".", "/", "x">>}

Get == <<"G", "E", "T">>

\* Calls with server socket ss, TLS setup t = <<policy, fingerprint>> and the
\* given peer.
NetRequests(ss, t, peer) ==
    LET net == Net(peer, TRUE, ServerS, <<>>, TRUE, GoodZip(Version1))
        sha == sha256_hex(GoodZip(Version1))
    IN {Request("network_fetch", ss, t[1], t[2], PluginP, <<>>, url, <<>>, Get, net) :
           url \in TargetUrls}
       \cup {Request("api_request_json", ss, t[1], t[2], PluginP, <<>>, path, <<>>, Get, net) :
                path \in ApiPaths}
       \cup {Request("install_from_url", ss, t[1], t[2], PluginP, Version1, url, sha, <<>>,
                     net) : url \in TargetUrls}
       \cup {Request("install_from_server_catalog", ss, t[1], t[2], PluginP, <<>>, <<>>,
                     <<>>, <<>>,
                     Net(peer, TRUE, ServerS, <<CatalogItem(PluginP, Version1, url, sha)>>,
                         TRUE, GoodZip(Version1))) : url \in TargetUrls}
       \cup {Request(op, ss, t[1], t[2], PluginP, Version1, <<>>, <<>>, <<"m">>, net) :
                op \in {"enable", "disable", "switch_version", "set_failed", "clear_error",
                        "uninstall", "list_installed", "get_installed",
                        "get_runtime_entry", "get_runtime_entry_for_version",
                        "storage_get", "storage_set"}}

NoRequest ==
    Request("", <<>>, <<>>, <<>>, <<>>, <<>>, <<>>, <<>>, <<>>, GoodNet(NotAZip))

NoCall ==
    [pc |-> "idle", req |-> NoRequest, ok |-> FALSE, err |-> "", events |-> <<>>,
     state |-> NoInstalledState, some |-> FALSE, list |-> {}, entry |-> NoRuntimeEntry,
     value |-> <<>>, after_set_failed |-> FALSE]

\* Plugin areas a call can start from: empty; version 1 installed; installed
\* and enabled; marked failed; versions 1 and 2 installed; left behind by an
\* install that failed at the manifest check.
FsInstalled1 ==
    finish_install("unix", EmptyFs, ServerS, PluginP, Version1, GoodZip(Version1)).fs

FsEnabled1 ==
    enable("unix", GoodNet(NotAZip), FsInstalled1, HttpSocket, PluginP, <<>>, <<>>).fs

FsFailed1 ==
    set_failed(GoodNet(NotAZip), FsEnabled1, HttpSocket, PluginP, <<"m">>, <<>>, <<>>).fs

FsTwoVersions ==
    finish_install("unix", FsInstalled1, ServerS, PluginP, Version2, GoodZip(Version2)).fs

FsPartial == finish_install("unix", EmptyFs, ServerS, PluginP, Version1, NoManifestZip).fs

PreStates == {EmptyFs, FsInstalled1, FsEnabled1, FsFailed1, FsTwoVersions, FsPartial}

\* The calls of a session with one server and one plugin.
SessionRequest(op, version, url, sha256, message, net) ==
    Request(op, HttpSocket, <<>>, <<>>, PluginP, version, url, sha256, message, net)

SessionArchives ==
    {<<Version1, GoodZip(Version1)>>, <<Version2, GoodZip(Version2)>>,
     <<Version1, NoEntryFileZip(Version1)>>, <<Version1, DirEntryZip(Version1)>>,
     <<Version1, BlankEntryZip(Version1)>>, <<Version1, NoManifestZip>>}

SessionRequests ==
    {SessionRequest("install_from_url", a[1], DownloadUrl, sha256_hex(a[2]), <<>>,
                    GoodNet(a[2])) : a \in SessionArchives}
    \cup {SessionRequest("install_from_url", Version1, DownloadUrl, sha256_hex(NotAZip), <<>>,
                         GoodNet(GoodZip(Version1)))}
    \cup {SessionRequest("install_from_server_catalog", <<>>, <<>>, <<>>, <<>>,
                         Net("certA", TRUE, ServerS,
                             <<CatalogItem(PluginP, v, <<"/", "z">>, sha256_hex(GoodZip(v)))>>,
                             TRUE, GoodZip(v))) : v \in {Version1, Version2}}
    \cup {SessionRequest(op, <<>>, <<>>, <<>>, <<" ", "m", " ">>, GoodNet(NotAZip)) :
             op \in {"enable", "disable", "set_failed", "clear_error", "uninstall"}}
    \cup {SessionRequest("enable", <<>>, <<>>, <<>>, <<>>,
                         Net("certA", FALSE, ServerS, <<>>, TRUE, NotAZip))}
    \cup {SessionRequest("switch_version", v, <<>>, <<>>, <<>>, GoodNet(NotAZip)) :
             v \in {Version1, Version2, CurrentJsonName}}
    \cup {SessionRequest(op, <<>>, <<>>, <<>>, <<>>, GoodNet(NotAZip)) :
             op \in {"list_installed", "get_installed", "get_runtime_entry"}}
    \cup {SessionRequest("get_runtime_entry_for_version", Version1, <<>>, <<>>, <<>>,
                         GoodNet(NotAZip)),
          SessionRequest("storage_get", <<>>, <<"k">>, <<>>, <<>>, GoodNet(NotAZip)),
          SessionRequest("storage_set", <<>>, <<"k">>, <<>>, <<"v">>, GoodNet(NotAZip))}
    \cup {SessionRequest("network_fetch", <<>>, <<"/", "x">>, <<>>, Get, GoodNet(NotAZip)),
          SessionRequest("api_request_json", <<>>, <<"/", "api", "/", "x">>, <<>>, Get,
                         GoodNet(NotAZip))}

\* A single call on a prepared plugin area.
CallStart ==
    \/ /\ platform \in {"unix", "windows"}
       /\ fs \in PreStates
       /\ \E bytes \in Range(KnownBytes) :
             call \in {[NoCall EXCEPT !.pc = "pending", !.req = r] :
                          r \in InstallUrlRequests(bytes) \cup InstallCatalogRequests(bytes)}
    \/ /\ platform = "unix"
       /\ fs = FsInstalled1
       /\ \E ss \in NetSockets, t \in TlsSetups, peer \in Peers :
             call \in {[NoCall EXCEPT !.pc = "pending", !.req = r] :
                          r \in NetRequests(ss, t, peer)}

\* A session: any number of calls, starting from an empty plugin area.
StoreStart ==
    /\ platform = "unix"
    /\ fs = EmptyFs
    /\ call = [NoCall EXCEPT !.pc = "ready"]

CallIdle == call = NoCall

\* The requests that can be issued now: the pending one, or any of the session.
RequestsNow ==
    IF call.pc = "pending" THEN {call.req}
    ELSE IF call.pc = "ready" THEN SessionRequests
    ELSE {}

\* The call r has run to completion with result res; after_set_failed records
\* that the call before it was a successful set_failed.
Finished(r, res) ==
    /\ fs' = res.fs
    /\ call' = [pc |-> IF call.pc = "pending" THEN "done" ELSE "ready",
                req |-> r, ok |-> res.ok, err |-> res.err, events |-> res.events,
                state |-> res.state, some |-> res.some, list |-> res.list,
                entry |-> res.entry, value |-> res.value,
                after_set_failed |-> call.req.op = "set_failed" /\ call.ok]
    /\ UNCHANGED platform

InstallFromUrl ==
    \E r \in RequestsNow :
        /\ r.op = "install_from_url"
        /\ \E res \in {install_from_url(platform, r.net, fs, r.server_socket, r.plugin_id,
                                         r.version, r.url, r.sha256, r.tls_policy,
                                         r.tls_fingerprint)} :
               Finished(r, res)

InstallFromServerCatalog ==
    \E r \in RequestsNow :
        /\ r.op = "install_from_server_catalog"
        /\ \E res \in {install_from_server_catalog(platform, r.net, fs, r.server_socket,
                                                    r.plugin_id, r.version, r.tls_policy,
                                                    r.tls_fingerprint)} :
               Finished(r, res)

Enable ==
    \E r \in RequestsNow :
        /\ r.op = "enable"
        /\ \E res \in {enable(platform, r.net, fs, r.server_socket, r.plugin_id, r.tls_policy,
                               r.tls_fingerprint)} :
               Finished(r, res)

Disable ==
    \E r \in RequestsNow :
        /\ r.op = "disable"
        /\ \E res \in {disable(r.net, fs, r.server_socket, r.plugin_id, r.tls_policy,
                                r.tls_fingerprint)} :
               Finished(r, res)

SwitchVersion ==
    \E r \in RequestsNow :
        /\ r.op = "switch_version"
        /\ \E res \in {switch_version(r.net, fs, r.server_socket, r.plugin_id, r.version,
                                       r.tls_policy, r.tls_fingerprint)} :
               Finished(r, res)

SetFailed ==
    \E r \in RequestsNow :
        /\ r.op = "set_failed"
        /\ \E res \in {set_failed(r.net, fs, r.server_socket, r.plugin_id, r.message,
                                   r.tls_policy, r.tls_fingerprint)} :
               Finished(r, res)

ClearError ==
    \E r \in RequestsNow :
        /\ r.op = "clear_error"
        /\ \E res \in {clear_error(r.net, fs, r.server_socket, r.plugin_id, r.tls_policy,
                                    r.tls_fingerprint)} :
               Finished(r, res)

Uninstall ==
    \E r \in RequestsNow :
        /\ r.op = "uninstall"
        /\ \E res \in {uninstall(r.net, fs, r.server_socket, r.plugin_id, r.tls_policy,
                                  r.tls_fingerprint)} :
               Finished(r, res)

NetworkFetch ==
    \E r \in RequestsNow :
        /\ r.op = "network_fetch"
        /\ \E res \in {network_fetch(r.net, fs, r.server_socket, r.url, r.message,
                                      r.tls_policy, r.tls_fingerprint)} :
               Finished(r, res)

ApiRequestJson ==
    \E r \in RequestsNow :
        /\ r.op = "api_request_json"
        /\ \E res \in {api_request_json(r.net, fs, r.server_socket, r.message, r.url,
                                         r.tls_policy, r.tls_fingerprint)} :
               Finished(r, res)

ListInstalled ==
    \E r \in RequestsNow :
        /\ r.op = "list_installed"
        /\ \E res \in {list_installed(platform, r.net, fs, r.server_socket, r.tls_policy,
                                      r.tls_fingerprint)} :
               Finished(r, res)

GetInstalled ==
    \E r \in RequestsNow :
        /\ r.op = "get_installed"
        /\ \E res \in {get_installed(r.net, fs, r.server_socket, r.plugin_id, r.tls_policy,
                                     r.tls_fingerprint)} :
               Finished(r, res)

GetRuntimeEntry ==
    \E r \in RequestsNow :
        /\ r.op = "get_runtime_entry"
        /\ \E res \in {get_runtime_entry(r.net, fs, r.server_socket, r.plugin_id,
                                         r.tls_policy, r.tls_fingerprint)} :
               Finished(r, res)

GetRuntimeEntryForVersion ==
    \E r \in RequestsNow :
        /\ r.op = "get_runtime_entry_for_version"
        /\ \E res \in {get_runtime_entry_for_version(r.net, fs, r.server_socket, r.plugin_id,
                                                     r.version, r.tls_policy,
                                                     r.tls_fingerprint)} :
               Finished(r, res)

\* storage_get and storage_set take the key from the request's url and the
\* value from its message.
StorageGet ==
    \E r \in RequestsNow :
        /\ r.op = "storage_get"
        /\ \E res \in {storage_get(r.net, fs, r.server_socket, r.plugin_id, r.url,
                                   r.tls_policy, r.tls_fingerprint)} :
               Finished(r, res)

StorageSet ==
    \E r \in RequestsNow :
        /\ r.op = "storage_set"
        /\ \E res \in {storage_set(r.net, fs, r.server_socket, r.plugin_id, r.url, r.message,
                                   r.tls_policy, r.tls_fingerprint)} :
               Finished(r, res)

CallNext ==
    /\ \/ InstallFromUrl
       \/ InstallFromServerCatalog
       \/ Enable
       \/ Disable
       \/ SwitchVersion
       \/ SetFailed
       \/ ClearError
       \/ Uninstall
       \/ NetworkFetch
       \/ ApiRequestJson
       \/ ListInstalled
       \/ GetInstalled
       \/ GetRuntimeEntry
       \/ GetRuntimeEntryForVersion
       \/ StorageGet
       \/ StorageSet
    /\ UNCHANGED <<framerVars, pathCall, unpackCall, tcp, db, reg, dbtxn, par, pool, lk>>

----------------------------------------------------------------------------
(* Session registry: TcpServiceReal::connect, add_tcp_service,             *)
(* send_tcp_service, listen_tcp_service                                    *)

\* The address a peer listens on; any other address does not resolve.
PeerAddr == <<"a", ":", "443">>

\* The certificate the platform's trust store accepts for host "a".
TrustedCert == "certA"

\* parse_transport: the transport and the address of a socket string.
Transport(tls, insecure, has_fingerprint, fingerprint_sha256, addr) ==
    [tls |-> tls, insecure |-> insecure, has_fingerprint |-> has_fingerprint,
     fingerprint_sha256 |-> fingerprint_sha256, addr |-> addr]

\* The variant of parse_transport that pins nothing when the '@' is missing.
parse_transport_unpinned_without_at(raw) ==
    LET rest == Tail(raw)
        at == IndexOfAny(rest, {"@"})
    IN IF raw # <<>> /\ raw[1] = "tls-fp://"
       THEN IF at > 0
            THEN Transport(TRUE, TRUE, TRUE, normalize_fingerprint(SubSeq(rest, 1, at - 1)),
                           Drop(rest, at))
            ELSE Transport(TRUE, TRUE, FALSE, <<>>, rest)
       ELSE IF raw # <<>> /\ raw[1] = "tls-insecure://"
            THEN Transport(TRUE, TRUE, FALSE, <<>>, rest)
       ELSE IF raw # <<>> /\ raw[1] = "tls://" THEN Transport(TRUE, FALSE, FALSE, <<>>, rest)
       ELSE IF raw # <<>> /\ raw[1] = "tcp://" THEN Transport(FALSE, FALSE, FALSE, <<>>, rest)
       ELSE Transport(FALSE, FALSE, FALSE, <<>>, raw)

\* parse_transport
parse_transport(raw) ==
    LET rest == Tail(raw)
        at == IndexOfAny(rest, {"@"})
    IN IF raw # <<>> /\ raw[1] = "tls-fp://"
       THEN IF at > 0
            THEN Transport(TRUE, TRUE, TRUE, normalize_fingerprint(SubSeq(rest, 1, at - 1)),
                           Drop(rest, at))
            ELSE Transport(TRUE, TRUE, TRUE, <<>>, rest)
       ELSE IF raw # <<>> /\ raw[1] = "tls-insecure://"
            THEN Transport(TRUE, TRUE, FALSE, <<>>, rest)
       ELSE IF raw # <<>> /\ raw[1] = "tls://" THEN Transport(TRUE, FALSE, FALSE, <<>>, rest)
       ELSE IF raw # <<>> /\ raw[1] = "tcp://" THEN Transport(FALSE, FALSE, FALSE, <<>>, rest)
       ELSE Transport(FALSE, FALSE, FALSE, <<>>, raw)

\* verify_tls_fingerprint_sha256(tls, expected_sha256) on a stream whose peer
\* presented the given leaf ("no_cert": none).
verify_tls_fingerprint_sha256(peer, expected_sha256) ==
    LET expected == normalize_fingerprint(expected_sha256) IN
    IF Len(expected) # FingerprintLen THEN "Invalid TLS fingerprint"
    ELSE IF peer = "no_cert" THEN "TLS fingerprint check failed: missing peer certificate"
    ELSE IF cert_sha256_hex(peer) # expected THEN "TLS fingerprint mismatch"
    ELSE ""

\* extract_host
extract_host(addr) ==
    LET trimmed == Trim(addr)
        rest == Tail(trimmed)
        end == IndexOfAny(rest, {"]"})
        colon == LastIndexOf(trimmed, ":")
    IN IF trimmed = <<>> THEN [ok |-> FALSE, host |-> <<>>]
       ELSE IF trimmed[1] = "["
            THEN IF end > 0 THEN [ok |-> TRUE, host |-> SubSeq(rest, 1, end - 1)]
                 ELSE [ok |-> FALSE, host |-> <<>>]
       ELSE IF colon > 0 THEN [ok |-> TRUE, host |-> SubSeq(trimmed, 1, colon - 1)]
       ELSE [ok |-> TRUE, host |-> trimmed]

\* A connection to a peer: the socket string it was opened for, what the peer
\* did, whether the TLS handshake completed, whether a reader task runs on
\* it and how many sends wrote to it.
Connection(socket, peer, handshake) ==
    [socket |-> socket, peer |-> peer, handshake |-> handshake, reader |-> FALSE,
     written |-> 0]

NoConnection == Connection(<<>>, "", FALSE)

\* TcpServiceReal::connect(socket) against a peer: Ok(service) or Err, and the
\* connection it opened.
connect(socket, peer) ==
    LET t == parse_transport(socket)
        host == extract_host(t.addr)
        tcp_ok == t.addr = PeerAddr /\ peer # "refused"
        tls_ok == /\ peer # "handshake_failed"
                  /\ t.insecure \/ (peer = TrustedCert /\ host.host = <<"a">>)
        fp_err == verify_tls_fingerprint_sha256(peer, t.fingerprint_sha256)
        R(ok, err, handshake) ==
            [ok |-> ok, err |-> err, conn |-> Connection(socket, peer, handshake)]
    IN IF ~tcp_ok THEN R(FALSE, "Failed to connect TCP stream", FALSE)
       ELSE IF ~t.tls THEN R(TRUE, "", FALSE)
       ELSE IF ~host.ok THEN R(FALSE, "Missing address", FALSE)
       ELSE IF ~tls_ok THEN R(FALSE, "TLS handshake failed", FALSE)
       ELSE IF t.has_fingerprint /\ fp_err # "" THEN R(FALSE, fp_err, TRUE)
       ELSE R(TRUE, "", TRUE)

\* TcpBackend: Real(service) with its connection, or Mock(mode, started).
RealBackend(conn) == [kind |-> "Real", mode |-> "", started |-> FALSE, conn |-> conn]

MockBackend(mode) == [kind |-> "Mock", mode |-> mode, started |-> FALSE, conn |-> NoConnection]

NoBackend == [kind |-> "None", mode |-> "", started |-> FALSE, conn |-> NoConnection]

\* parse_mock_mode
parse_mock_mode(socket) ==
    IF Len(socket) >= 2 /\ socket[1] = "mock://" /\ socket[2] = "handshake" THEN "HandshakeOk"
    ELSE "NoServer"

\* The task TcpBackend::start spawns: the real service spawns the read loop
\* when it still holds its reader (reader.take()), the mock spawns the
\* handshake emission when it was not started and its mode is HandshakeOk.
start_spawns_every_time(b) ==
    IF b.kind = "Real" THEN "reader"
    ELSE IF b.mode = "HandshakeOk" THEN "handshake" ELSE ""

start_spawns(b) ==
    IF b.kind = "Real" THEN (IF b.conn.reader THEN "" ELSE "reader")
    ELSE IF ~b.started /\ b.mode = "HandshakeOk" THEN "handshake" ELSE ""

\* TcpBackend::start: the real service hands its reader to a new task, once;
\* the mock marks itself started.
backend_start(b) ==
    IF b.kind = "Real" THEN [b EXCEPT !.conn.reader = TRUE]
    ELSE [b EXCEPT !.started = TRUE]

\* Names of sessions (registry keys), and the registry before any add.
ServerSockets == {"k1"}

EmptyRegistry == [k \in ServerSockets |-> NoBackend]

\* The outcome of a registry call: the registry it leaves, Ok or Err, for an
\* add the outcome of its connect, and the task its start spawned ("" when
\* none).
TcpResult(map, op, ok, err, connect_err, conn) ==
    [map |-> map, last |-> [op |-> op, ok |-> ok, err |-> err, connect_err |-> connect_err,
                            conn |-> conn],
     spawned |-> ""]

\* Socket strings handed to add_tcp_service: pinned to certA's digest (plain,
\* and in upper case with colons), pinned to certB's digest, pinned to a digest
\* one digit short, tls-fp without '@' (with and without a fingerprint), pinned
\* at an address nobody listens on; tls-insecure, tls, tcp, a bare address; mock.
TcpSockets ==
    {<<"tls-fp://">> \o FpA \o <<"@">> \o PeerAddr,
     <<"tls-fp://">> \o WithColons(to_uppercase(FpA)) \o <<"@">> \o PeerAddr,
     <<"tls-fp://">> \o Fill("b") \o <<"@">> \o PeerAddr,
     <<"tls-fp://">> \o SubSeq(FpA, 1, FingerprintLen - 1) \o <<"@">> \o PeerAddr,
     <<"tls-fp://">> \o PeerAddr,
     <<"tls-fp://">> \o FpA \o PeerAddr,
     <<"tls-fp://">> \o FpA \o <<"@", "b", ":", "443">>,
     <<"tls-insecure://">> \o PeerAddr,
     <<"tls://">> \o PeerAddr,
     <<"tcp://">> \o PeerAddr,
     PeerAddr,
     <<"mock://", "handshake">>,
     <<"mock://", "x">>}

\* The outcome of connect for every socket string and peer.
Connects == [x \in TcpSockets \X Peers |-> connect(x[1], x[2])]

\* add_tcp_service with the fallback to a ConnectFailed mock taken in every
\* build.
add_tcp_service_fallback_everywhere(build, initialized, map, server_socket, socket, peer) ==
    LET is_mock == socket # <<>> /\ socket[1] = "mock://"
        c == Connects[<<socket, peer>>]
        backend ==
            IF is_mock THEN MockBackend(parse_mock_mode(socket))
            ELSE IF c.ok THEN RealBackend(c.conn)
            ELSE MockBackend("ConnectFailed")
        started == backend_start(backend)
        attempted == IF is_mock THEN NoConnection
                     ELSE IF c.ok THEN started.conn ELSE c.conn
        connect_err == IF is_mock THEN "" ELSE c.err
        R(ok, err, m) == TcpResult(m, "add", ok, err, connect_err, attempted)
    IN IF ~initialized
       THEN TcpResult(map, "add", FALSE, "TCP Service not initialized", "", NoConnection)
       ELSE IF is_mock /\ build = "release"
            THEN R(FALSE, "mock:// socket is only supported in debug builds", map)
       ELSE [R(TRUE, "", [map EXCEPT ![server_socket] = started])
                EXCEPT !.spawned = start_spawns(backend)]

\* add_tcp_service(app, server_socket, socket) in a debug or release build.
add_tcp_service(build, initialized, map, server_socket, socket, peer) ==
    LET is_mock == socket # <<>> /\ socket[1] = "mock://"
        c == Connects[<<socket, peer>>]
        backend ==
            IF is_mock THEN MockBackend(parse_mock_mode(socket))
            ELSE IF c.ok THEN RealBackend(c.conn)
            ELSE MockBackend("ConnectFailed")
        started == backend_start(backend)
        attempted == IF is_mock THEN NoConnection
                     ELSE IF c.ok THEN started.conn ELSE c.conn
        connect_err == IF is_mock THEN "" ELSE c.err
        R(ok, err, m) == TcpResult(m, "add", ok, err, connect_err, attempted)
    IN IF ~initialized
       THEN TcpResult(map, "add", FALSE, "TCP Service not initialized", "", NoConnection)
       ELSE IF is_mock /\ build = "release"
            THEN R(FALSE, "mock:// socket is only supported in debug builds", map)
       ELSE IF ~is_mock /\ ~c.ok /\ build = "release" THEN R(FALSE, c.err, map)
       ELSE [R(TRUE, "", [map EXCEPT ![server_socket] = started])
                EXCEPT !.spawned = start_spawns(backend)]

\* send_tcp_service(server_socket, data); io is what write_all does on a real
\* connection: it writes everything, fails after writing part, or fails.
send_tcp_service(initialized, map, server_socket, io) ==
    LET b == map[server_socket]
        wrote == [map EXCEPT ![server_socket].conn.written = @ + 1]
        R(ok, err, m) == TcpResult(m, "send", ok, err, "", NoConnection)
    IN IF ~initialized THEN R(FALSE, "TCP Service not initialized", map)
       ELSE IF b.kind = "None" THEN R(FALSE, "TCP service not found for server_socket", map)
       ELSE IF b.kind = "Real"
            THEN CASE io = "ok" -> R(TRUE, "", wrote)
                   [] io = "partial" -> R(FALSE, "Failed to send TCP data", wrote)
                   [] OTHER -> R(FALSE, "Failed to send TCP data", map)
       ELSE IF b.mode = "ConnectFailed" THEN R(FALSE, "Mock TCP: connect failed", map)
       ELSE R(TRUE, "", map)

\* listen_tcp_service(server_socket, app)
listen_tcp_service(initialized, map, server_socket) ==
    LET b == map[server_socket]
        R(ok, err, m) == TcpResult(m, "listen", ok, err, "", NoConnection)
    IN IF ~initialized THEN R(FALSE, "TCP Service not initialized", map)
       ELSE IF b.kind = "None" THEN R(FALSE, "TCP service not found for server_socket", map)
       ELSE [R(TRUE, "", [map EXCEPT ![server_socket] = backend_start(b)])
                EXCEPT !.spawned = start_spawns(b)]

\* Sends counted per connection.
MaxWritten == 1

NoTcpCall ==
    [op |-> "", ok |-> FALSE, err |-> "", connect_err |-> "", conn |-> NoConnection]

\* Bound: backends inserted under one key.
MaxAdds == 2

\* A spawned task: the read loop of a real service or the handshake emission
\* of a mock, with the server_socket it was started with.
Task(kind, server_socket, gen) == [kind |-> kind, server_socket |-> server_socket, gen |-> gen]

\* An event emitted to the front end: its name, the server_socket it is tagged
\* with, the kind of task that emitted it, which of the backends inserted
\* under that key the task belongs to (the gen-th), and which one was
\* registered when it was emitted.
Event(name, task, registered) ==
    [name |-> name, server_socket |-> task.server_socket, by |-> task.kind,
     gen |-> task.gen, registered |-> registered]

NoEvent == [name |-> "", server_socket |-> "", by |-> "", gen |-> 0, registered |-> 0]

\* The process: its build, the registry, the outcome of the last registry
\* call; per key the number of backends inserted so far and the number of
\* tasks started for the registered one; the running tasks; the last event.
NoTcp ==
    [build |-> "", initialized |-> FALSE, map |-> EmptyRegistry, last |-> NoTcpCall,
     gen |-> [k \in ServerSockets |-> 0], starts |-> [k \in ServerSockets |-> 0],
     tasks |-> {}, event |-> NoEvent]

TcpIdle == tcp = NoTcp

\* A process of a debug or a release build before init_tcp_service.
TcpStart == tcp \in {[NoTcp EXCEPT !.build = b] : b \in {"debug", "release"}}

\* The tasks after a call whose start spawned one for the gen-th backend.
Spawn(tasks, spawned, server_socket, gen) ==
    IF spawned = "" THEN tasks ELSE tasks \cup {Task(spawned, server_socket, gen)}

\* The process after add_tcp_service(app, server_socket, socket) met peer.
AddOutcome(t, server_socket, socket, peer) ==
    The({
    The({
    [t EXCEPT !.map = r.map, !.last = r.last,
              !.gen[server_socket] = gen,
              !.starts[server_socket] =
                  IF ~r.last.ok THEN @ ELSE IF r.spawned = "" THEN 0 ELSE 1,
              !.tasks = Spawn(@, r.spawned, server_socket, gen)]
    : gen \in {IF r.last.ok THEN t.gen[server_socket] + 1 ELSE t.gen[server_socket]}})
    : r \in {add_tcp_service(t.build, t.initialized, t.map, server_socket, socket, peer)}})

\* The process after send_tcp_service(server_socket, data) whose write did io.
SendOutcome(t, server_socket, io) ==
    The({[t EXCEPT !.map = r.map, !.last = r.last]
         : r \in {send_tcp_service(t.initialized, t.map, server_socket, io)}})

\* The process after listen_tcp_service(server_socket, app).
ListenOutcome(t, server_socket) ==
    The({[t EXCEPT !.map = r.map, !.last = r.last,
                   !.starts[server_socket] = IF r.spawned = "" THEN @ ELSE @ + 1,
                   !.tasks = Spawn(@, r.spawned, server_socket, t.gen[server_socket])]
         : r \in {listen_tcp_service(t.initialized, t.map, server_socket)}})

\* init_tcp_service
InitTcpService ==
    /\ ~tcp.initialized
    /\ tcp' = [tcp EXCEPT !.initialized = TRUE, !.last = [NoTcpCall EXCEPT !.op = "init", !.ok = TRUE]]

\* add_tcp_service called with one of the given socket strings.
AddTcpServiceWith(sockets) ==
    \E server_socket \in ServerSockets, socket \in sockets, peer \in Peers :
        \E u \in {AddOutcome(tcp, server_socket, socket, peer)} :
            /\ u.gen[server_socket] <= MaxAdds
            /\ tcp' = u

AddTcpService == AddTcpServiceWith(TcpSockets)

\* Socket strings of the callers whose tasks are followed: plain, tls-insecure
\* and the two mock forms.
EventSockets ==
    {<<"tcp://">> \o PeerAddr, <<"tls-insecure://">> \o PeerAddr,
     <<"mock://", "handshake">>, <<"mock://", "x">>}

AddEventSocket == AddTcpServiceWith(EventSockets)

SendTcpService ==
    \E server_socket \in ServerSockets, io \in {"ok", "partial", "failed"} :
        /\ tcp.map[server_socket].conn.written < MaxWritten
        /\ tcp' = SendOutcome(tcp, server_socket, io)

ListenTcpService ==
    \E server_socket \in ServerSockets : tcp' = ListenOutcome(tcp, server_socket)

\* One turn of the read loop of a real service: bytes arrived on its
\* connection and the raw chunk is emitted as tcp-message tagged with its
\* server_socket (each complete frame follows as tcp-frame with the same tag).
ReaderEmit ==
    \E task \in tcp.tasks :
        /\ task.kind = "reader"
        /\ tcp' = [tcp EXCEPT !.event = Event("tcp-message", task, tcp.gen[task.server_socket])]

\* The read loop ends: the peer closed the connection or the read failed.
ReaderEnds ==
    \E task \in tcp.tasks :
        /\ task.kind = "reader"
        /\ tcp' = [tcp EXCEPT !.tasks = @ \ {task}]

\* The task spawned by MockTcpService::start emits the handshake as
\* tcp-message and then as tcp-frame, and ends.
HandshakeEmit ==
    \E task \in tcp.tasks :
        /\ task.kind = "handshake"
        /\ tcp' = [tcp EXCEPT !.tasks = @ \ {task},
                              !.event = Event("tcp-frame", task, tcp.gen[task.server_socket])]

TcpNext ==
    /\ \/ InitTcpService
       \/ AddTcpService
       \/ SendTcpService
       \/ ListenTcpService
    /\ UNCHANGED <<framerVars, pathVars, unpackVars, call, db, reg, dbtxn, par, pool, lk>>

\* The registry calls together with the tasks they spawned.
EventsNext ==
    /\ \/ InitTcpService
       \/ AddEventSocket
       \/ SendTcpService
       \/ ListenTcpService
       \/ ReaderEmit
       \/ ReaderEnds
       \/ HandshakeEmit
    /\ UNCHANGED <<framerVars, pathVars, unpackVars, call, db, reg, dbtxn, par, pool, lk>>

----------------------------------------------------------------------------
(* Database registry: db_init, connect_named, run_migrations               *)

\* Bound: db_init calls issued by one caller.
MaxInits == 2

\* The invocations of the db_init command that may be in progress together.
Callers == {1, 2}

Migration(version, name, statements) ==
    [version |-> version, name |-> name, statements |-> statements]

\* Each statement is CREATE TABLE / CREATE INDEX ... IF NOT EXISTS of the
\* object it is named by here.
system_migrations == <<Migration(1, "system_base", <<"app_config", "servers">>)>>

server_migrations ==
    <<Migration(1, "server_base",
                <<"channels", "messages", "idx_messages_channel_time", "kv">>)>>

AllMigrations ==
    {system_migrations[n] : n \in DOMAIN system_migrations}
        \cup {server_migrations[n] : n \in DOMAIN server_migrations}

Versions == {mig.version : mig \in AllMigrations}

SystemKind == <<"s", "y", "s", "t", "e", "m">>

ServerKind == <<"s", "e", "r", "v", "e", "r">>

\* The key of the run's database, and the key and kind arguments of a request.
DbKeys == {SystemKind, <<"k">>}

KindArgs ==
    {[some |-> FALSE, val |-> <<>>],
     [some |-> TRUE, val |-> <<" ", "S">> \o Tail(SystemKind)],
     [some |-> TRUE, val |-> ServerKind]}

\* run_migrations: the migration list chosen from the key and the kind.
migrations_of(key, kind) ==
    IF (IF kind.some THEN to_lowercase(Trim(kind.val))
        ELSE IF key = SystemKind THEN SystemKind ELSE ServerKind) = SystemKind
    THEN system_migrations
    ELSE server_migrations

\* One db_init invocation: its position, the values it holds and its result.
NoDbCaller ==
    [pc |-> "idle", calls |-> 0, migrations |-> <<>>, applied |-> {}, m |-> 0,
     i |-> 0, created |-> {}, rows |-> {}, dropped |-> {}, returned |-> FALSE,
     ok |-> FALSE, err |-> "", io_failed |-> FALSE]

\* The registry, the database file behind the key (its committed objects and
\* ledger rows, and the holder of its write lock), how many times each
\* version's transaction has committed, and the callers.
NoDb ==
    [key |-> <<>>, registry |-> {}, tables |-> {}, ledger |-> {},
     applied_count |-> [v \in Versions |-> 0], lock |-> 0,
     caller |-> [p \in Callers |-> NoDbCaller]]

DbIdle == db = NoDb

DbStart == db \in {[NoDb EXCEPT !.key = k] : k \in DbKeys}

\* str::is_ascii_alphanumeric, for the characters of the keys used here.
AsciiAlphanumeric ==
    {"a", "b", "c", "d", "e", "f", "k", "m", "r", "s", "t", "v", "y",
     "A", "B", "C", "D", "E", "F", "S", "T",
     "0", "1", "2", "3", "4", "5", "6", "7", "8", "9"}

sanitize_key(key) ==
    IF key = <<>> THEN <<"default">>
    ELSE [n \in 1..Len(key) |->
             IF key[n] \in AsciiAlphanumeric \cup {"-", "_"} THEN key[n] ELSE "_"]

\* The default path, relative to the project root.
default_db_path(key) == <<"data", "/", "db", "/">> \o sanitize_key(key) \o <<".db">>

DbEntry(key, path) == [key |-> key, path |-> path]

\* A variant of connect_named that binds the key to the path it is given
\* whatever the registry holds.
connect_named_rebinds(registry, key, path, opened) ==
    IF \E e \in registry : e.key = key /\ e.path = path
    THEN [ok |-> TRUE, registry |-> registry, opens |-> 0]
    ELSE IF opened
    THEN [ok |-> TRUE,
          registry |-> {e \in registry : e.key # key} \cup {DbEntry(key, path)},
          opens |-> 1]
    ELSE [ok |-> FALSE, registry |-> registry, opens |-> 0]

\* connect_named, under the registry's write lock: an existing key with the
\* same path is reused, an existing key with another path is refused;
\* otherwise the pool is opened and, if that succeeds, registered. `opens`
\* is the number of pools the call opened.
connect_named(registry, key, path, opened) ==
    IF \E e \in registry : e.key = key
    THEN [ok |-> \E e \in registry : e.key = key /\ e.path = path,
          registry |-> registry, opens |-> 0]
    ELSE IF opened
    THEN [ok |-> TRUE, registry |-> registry \cup {DbEntry(key, path)}, opens |-> 1]
    ELSE [ok |-> FALSE, registry |-> registry, opens |-> 0]

\* The command returns: the caller is idle again and holds its result.
DbReturned(c, ok, err, io_failed) ==
    [c EXCEPT !.pc = "idle", !.returned = TRUE, !.ok = ok, !.err = err,
              !.io_failed = io_failed, !.created = {}, !.rows = {},
              !.dropped = c.created \cup {row.name : row \in c.rows}]

\* A variant of drop_txn whose rollback keeps the objects the transaction
\* created.
drop_txn_keeps_statements(d, p, err, io_failed) ==
    [d EXCEPT !.lock = IF d.lock = p THEN 0 ELSE d.lock,
              !.tables = d.tables \cup d.caller[p].created,
              !.caller[p] = DbReturned(d.caller[p], FALSE, err, io_failed)]

\* An error return by `?` inside the migration loop: the transaction is
\* dropped without commit, which rolls it back and releases the write lock.
drop_txn(d, p, err, io_failed) ==
    [d EXCEPT !.lock = IF d.lock = p THEN 0 ELSE d.lock,
              !.caller[p] = DbReturned(d.caller[p], FALSE, err, io_failed)]

\* db_init up to the call of run_migrations: the key check and connect_named.
\* The requests carry no path, so the path is default_db_path(key).
DbInit ==
    \E p \in Callers, key \in {db.key, <<" ">>}, kind \in KindArgs, opened \in BOOLEAN :
        \E c \in {[NoDbCaller EXCEPT !.calls = db.caller[p].calls + 1]} :
            /\ db.caller[p].pc = "idle"
            /\ db.caller[p].calls < MaxInits
            /\ db' = IF Trim(key) = <<>>
                     THEN [db EXCEPT !.caller[p] = DbReturned(c, FALSE, "DB_KEY_REQUIRED", FALSE)]
                     ELSE The({IF ~conn.ok
                               THEN [db EXCEPT !.caller[p] =
                                         DbReturned(c, FALSE, "DB_CONNECT_FAILED", TRUE)]
                               ELSE [db EXCEPT !.registry = conn.registry,
                                               !.caller[p] =
                                                   [c EXCEPT !.pc = "ensure",
                                                             !.migrations = migrations_of(key, kind)]] :
                               conn \in {connect_named(db.registry, key, default_db_path(key), opened)}})

\* ensure_migrations_table: CREATE TABLE IF NOT EXISTS schema_migrations, in
\* autocommit mode; a writer waits while another transaction holds the write
\* lock.
EnsureMigrationsTable ==
    \E p \in Callers, io_ok \in BOOLEAN :
        /\ db.caller[p].pc = "ensure"
        /\ io_ok /\ "schema_migrations" \notin db.tables => db.lock = 0
        /\ db' = IF ~io_ok
                 THEN [db EXCEPT !.caller[p] = DbReturned(db.caller[p], FALSE, "DB_MIGRATIONS_TABLE_ENSURE_FAILED", TRUE)]
                 ELSE [db EXCEPT !.tables = db.tables \cup {"schema_migrations"},
                                 !.caller[p].pc = "fetch"]

\* fetch_applied_versions: one read of the committed ledger, outside any
\* transaction.
FetchAppliedVersions ==
    \E p \in Callers, io_ok \in BOOLEAN :
        /\ db.caller[p].pc = "fetch"
        /\ db' = IF ~io_ok
                 THEN [db EXCEPT !.caller[p] = DbReturned(db.caller[p], FALSE, "DB_MIGRATIONS_FETCH_APPLIED_FAILED", TRUE)]
                 ELSE [db EXCEPT !.caller[p].applied = {row.version : row \in db.ledger},
                                 !.caller[p].m = 1,
                                 !.caller[p].pc = "loop"]

\* The head of the loop over the migrations: return Ok after the last one,
\* skip a version found in `applied`, otherwise begin a transaction.
BeginMigration ==
    \E p \in Callers, io_ok \in BOOLEAN :
        \E c \in {db.caller[p]} :
            /\ c.pc = "loop"
            /\ db' = IF c.m > Len(c.migrations)
                     THEN [db EXCEPT !.caller[p] = DbReturned(c, TRUE, "", FALSE)]
                     ELSE IF c.migrations[c.m].version \in c.applied
                     THEN [db EXCEPT !.caller[p].m = c.m + 1]
                     ELSE IF ~io_ok
                     THEN [db EXCEPT !.caller[p] = DbReturned(db.caller[p], FALSE, "DB_MIGRATIONS_TXN_BEGIN_FAILED", TRUE)]
                     ELSE [db EXCEPT !.caller[p].pc = "statement",
                                     !.caller[p].i = 1]

\* txn.execute of the next statement: a no-op when the object already exists,
\* otherwise a write, which takes the write lock for the rest of the
\* transaction and waits while another transaction holds it.
ExecuteStatement ==
    \E p \in Callers, io_ok \in BOOLEAN :
        \E c \in {db.caller[p]} :
            /\ c.pc = "statement"
            /\ \E statements \in {c.migrations[c.m].statements} :
                   \E exists \in {statements[c.i] \in db.tables \cup c.created} :
                       /\ io_ok /\ ~exists => db.lock \in {0, p}
                       /\ db' = IF ~io_ok
                                THEN drop_txn(db, p, "DB_MIGRATIONS_STATEMENT_EXECUTE_FAILED", TRUE)
                                ELSE [db EXCEPT !.lock = IF exists THEN db.lock ELSE p,
                                                !.caller[p].created =
                                                    IF exists THEN c.created
                                                    ELSE c.created \cup {statements[c.i]},
                                                !.caller[p].i = c.i + 1,
                                                !.caller[p].pc =
                                                    IF c.i = Len(statements) THEN "insert"
                                                    ELSE "statement"]

\* txn.execute of INSERT INTO schema_migrations: a write; the primary key
\* `version` refuses a version the ledger already holds.
InsertLedgerRow ==
    \E p \in Callers, io_ok \in BOOLEAN :
        \E c \in {db.caller[p]} :
            /\ c.pc = "insert"
            /\ io_ok => db.lock \in {0, p}
            /\ \E mig \in {c.migrations[c.m]} :
                   db' = IF ~io_ok
                         THEN drop_txn(db, p, "DB_MIGRATIONS_RECORD_INSERT_FAILED", TRUE)
                         ELSE IF mig.version \in {row.version : row \in db.ledger \cup c.rows}
                         THEN drop_txn(db, p, "DB_MIGRATIONS_RECORD_INSERT_FAILED", FALSE)
                         ELSE [db EXCEPT !.lock = p,
                                         !.caller[p].rows =
                                             c.rows \cup {[version |-> mig.version,
                                                           name |-> mig.name]},
                                         !.caller[p].pc = "commit"]

\* txn.commit: the objects created and the ledger row become the committed
\* state together, and the loop goes on to the next migration.
CommitMigration ==
    \E p \in Callers, io_ok \in BOOLEAN :
        \E c \in {db.caller[p]} :
            /\ c.pc = "commit"
            /\ db' = IF ~io_ok
                     THEN drop_txn(db, p, "DB_MIGRATIONS_TXN_COMMIT_FAILED", TRUE)
                     ELSE [db EXCEPT !.tables = db.tables \cup c.created,
                                     !.ledger = db.ledger \cup c.rows,
                                     !.applied_count[c.migrations[c.m].version] = @ + 1,
                                     !.lock = 0,
                                     !.caller[p].created = {},
                                     !.caller[p].rows = {},
                                     !.caller[p].m = c.m + 1,
                                     !.caller[p].pc = "loop"]

DbNext ==
    /\ \/ DbInit
       \/ EnsureMigrationsTable
       \/ FetchAppliedVersions
       \/ BeginMigration
       \/ ExecuteStatement
       \/ InsertLedgerRow
       \/ CommitMigration
    /\ UNCHANGED <<framerVars, pathVars, unpackVars, call, tcp, reg, dbtxn, par, pool, lk>>

----------------------------------------------------------------------------
(* Database registry: connect_named, close_db and remove_db in concurrent  *)
(* tasks                                                                    *)

\* Bound: registry calls issued by one task.
MaxRegCalls == 2

RegKeys == {<<"k">>, <<"j">>}

RegPaths == {<<"a.db">>, <<"b.db">>}

NoRegCaller ==
    [pc |-> "idle", calls |-> 0, op |-> "", key |-> <<>>, path |-> <<>>,
     ok |-> FALSE, removed |-> <<>>, overlapped |-> FALSE]

\* The map of DB_REGISTRY, the task holding its write lock (0: none), the
\* number of pools opened so far, the tasks, and the database files on disk.
NoReg ==
    [map |-> {}, lock |-> 0, opened |-> 0,
     caller |-> [p \in Callers |-> NoRegCaller], files |-> {}]

RegIdle == reg = NoReg

RegStart == reg = NoReg

\* close_db under the write lock: the key's entry is removed, if any.
close_db(registry, key) == {e \in registry : e.key # key}

\* remove_db under the write lock: the key's entry is removed and its path
\* returned (<<>> stands for None).
remove_db(registry, key) ==
    [registry |-> {e \in registry : e.key # key},
     path |-> IF \E e \in registry : e.key = key
              THEN (CHOOSE e \in registry : e.key = key).path
              ELSE <<>>]

\* A task calls connect_named, close_db or remove_db and waits for the
\* registry's write lock.
RegistryCall ==
    \E p \in Callers, op \in {"connect_named", "close_db", "remove_db"}, key \in RegKeys, path \in RegPaths :
        /\ reg.caller[p].pc = "idle"
        /\ reg.caller[p].calls < MaxRegCalls
        /\ op # "connect_named" => path = <<"a.db">>
        /\ reg' = [reg EXCEPT !.caller[p] =
                       [NoRegCaller EXCEPT
                            !.pc = "waiting", !.calls = reg.caller[p].calls + 1,
                            !.op = op, !.key = key,
                            !.path = IF op = "connect_named" THEN path ELSE <<>>,
                            !.overlapped =
                                \E q \in Callers \ {p} :
                                    /\ reg.caller[q].pc # "idle"
                                    /\ reg.caller[q].op = "connect_named"
                                    /\ reg.caller[q].key = key]]

\* registry.write().await: granted when no task holds the lock.
AcquireWrite ==
    \E p \in Callers :
        /\ reg.caller[p].pc = "waiting"
        /\ reg.lock = 0
        /\ reg' = [reg EXCEPT !.lock = p, !.caller[p].pc = "locked"]

\* The body of connect_named, the lock being held across the opening of the
\* pool and released at the return.
ConnectNamed ==
    \E p \in Callers, opened \in BOOLEAN :
        \E c \in {reg.caller[p]} :
            /\ c.pc = "locked"
            /\ c.op = "connect_named"
            /\ \E conn \in {connect_named(reg.map, c.key, c.path, opened)} :
                   reg' = [reg EXCEPT !.map = conn.registry,
                                      !.opened = reg.opened + conn.opens,
                                      !.lock = 0,
                                      !.caller[p].pc = "idle",
                                      !.caller[p].ok = conn.ok]

CloseDb ==
    \E p \in Callers :
        /\ reg.caller[p].pc = "locked"
        /\ reg.caller[p].op = "close_db"
        /\ reg' = [reg EXCEPT !.map = close_db(reg.map, reg.caller[p].key),
                              !.lock = 0,
                              !.caller[p].pc = "idle",
                              !.caller[p].ok = TRUE]

RemoveDb ==
    \E p \in Callers :
        /\ reg.caller[p].pc = "locked"
        /\ reg.caller[p].op = "remove_db"
        /\ \E res \in {remove_db(reg.map, reg.caller[p].key)} :
               reg' = [reg EXCEPT !.map = res.registry,
                                  !.lock = 0,
                                  !.caller[p].pc = "idle",
                                  !.caller[p].ok = TRUE,
                                  !.caller[p].removed = res.path]

RegistryNext ==
    /\ \/ RegistryCall
       \/ AcquireWrite
       \/ ConnectNamed
       \/ CloseDb
       \/ RemoveDb
    /\ UNCHANGED <<framerVars, pathVars, unpackVars, call, tcp, db, dbtxn, par, pool, lk>>

\* Bound: pools opened by the db_init calls of one caller.
MaxOpens == 3

\* Keys handed to db_init and db_remove by one caller after the other: two
\* that differ in a character outside [A-Za-z0-9_-], two plain ones, a blank.
FileKeys == {<<"k", "/">>, <<"k", "_">>, <<"k">>, <<"m">>, <<" ">>}

\* db_init(key) without path, the whole command, the registry lock being free
\* before and after: connect_named on default_db_path(key); opening the pool
\* creates the file when it is not there. The migrations that follow change
\* the content of the file only.
DbInitDefaultPath ==
    \E key \in FileKeys, opened \in BOOLEAN :
        LET path == default_db_path(key)
            conn == connect_named(reg.map, key, path, opened)
            c == [NoRegCaller EXCEPT !.op = "db_init", !.key = key, !.path = path]
        IN /\ reg.lock = 0
           /\ reg.opened + conn.opens <= MaxOpens
           /\ reg' = IF Trim(key) = <<>>
                     THEN [reg EXCEPT !.caller[1] = c]
                     ELSE [reg EXCEPT !.map = conn.registry,
                                      !.opened = @ + conn.opens,
                                      !.files = IF conn.opens = 1 THEN @ \cup {path} ELSE @,
                                      !.caller[1] = [c EXCEPT !.ok = conn.ok]]

\* db_remove(key), the whole command: remove_db, then the file at the path of
\* the removed entry, or at default_db_path(key) when there was none, is
\* deleted if it exists.
DbRemove ==
    \E key \in FileKeys :
        LET res == remove_db(reg.map, key)
            path == IF res.path = <<>> THEN default_db_path(key) ELSE res.path
            c == [NoRegCaller EXCEPT !.op = "db_remove", !.key = key]
        IN /\ reg.lock = 0
           /\ reg' = IF Trim(key) = <<>>
                     THEN [reg EXCEPT !.caller[1] = c]
                     ELSE [reg EXCEPT !.map = res.registry,
                                      !.files = @ \ {path},
                                      !.caller[1] = [c EXCEPT !.ok = TRUE, !.removed = path]]

DbFilesNext ==
    /\ \/ DbInitDefaultPath
       \/ DbRemove
    /\ UNCHANGED <<framerVars, pathVars, unpackVars, call, tcp, db, dbtxn, par, pool, lk>>

----------------------------------------------------------------------------
(* Database commands: db_transaction                                        *)

\* Bounds: db_transaction calls of a run, and statements of one call.
MaxTxnCalls == 2

MaxStatements == 2

\* A statement writes the row it is named by when it affects rows; "w0" is
\* an UPDATE that matches nothing.
DbStatement(sql, rows) == [sql |-> sql, rows |-> rows]

TxnStatements == {DbStatement("w1", 1), DbStatement("w2", 2), DbStatement("w0", 0)}

TxnRequests ==
    UNION {[1..n -> TxnStatements] : n \in 0..MaxStatements}

exec_result(rows) == [rows_affected |-> rows, last_insert_rowid |-> "None"]

\* get_db: the key has an entry in the registry.
get_db(registry, key) == \E e \in registry : e.key = key

NoTxnCall ==
    [pc |-> "idle", calls |-> 0, key |-> <<>>, statements |-> <<>>, pending |-> {},
     results |-> <<>>, returned |-> FALSE, ok |-> FALSE, err |-> "", value |-> <<>>]

NoTxn == [registry |-> {}, rows |-> {}, call |-> NoTxnCall]

TxnIdle == dbtxn = NoTxn

\* Key k has been initialised; key j has not.
TxnStart ==
    dbtxn = [NoTxn EXCEPT !.registry = {DbEntry(<<"k">>, default_db_path(<<"k">>))}]

\* A variant of txn_dropped under which the writes of the dropped
\* transaction stay.
txn_dropped_keeps_writes(t, err) ==
    [t EXCEPT !.rows = t.rows \cup t.call.pending,
              !.call.pc = "idle", !.call.returned = TRUE, !.call.ok = FALSE,
              !.call.err = err, !.call.pending = {}, !.call.value = <<>>]

\* An error return by `?`: txn is dropped without commit, which rolls its
\* writes back.
txn_dropped(t, err) ==
    [t EXCEPT !.call.pc = "idle", !.call.returned = TRUE, !.call.ok = FALSE,
              !.call.err = err, !.call.pending = {}, !.call.value = <<>>]

\* db_transaction up to conn.begin().
DbTransaction ==
    \E key \in {<<"k">>, <<"j">>}, statements \in TxnRequests, io_ok \in BOOLEAN :
        \E c \in {[NoTxnCall EXCEPT !.calls = dbtxn.call.calls + 1, !.key = key,
                                    !.statements = statements]} :
            /\ dbtxn.call.pc = "idle"
            /\ dbtxn.call.calls < MaxTxnCalls
            /\ dbtxn' = IF ~get_db(dbtxn.registry, key)
                        THEN txn_dropped([dbtxn EXCEPT !.call = c], "DB_GET_CONNECTION_FAILED")
                        ELSE IF ~io_ok
                        THEN txn_dropped([dbtxn EXCEPT !.call = c], "DB_TRANSACTION_BEGIN_FAILED")
                        ELSE [dbtxn EXCEPT !.call = [c EXCEPT !.pc = "loop"]]

\* One turn of the loop: txn.execute of the next statement and the push of
\* its result.
TxnExecute ==
    \E io_ok \in BOOLEAN :
        \E c \in {dbtxn.call} :
            /\ c.pc = "loop"
            /\ Len(c.results) < Len(c.statements)
            /\ \E statement \in {c.statements[Len(c.results) + 1]} :
                   dbtxn' = IF ~io_ok
                            THEN txn_dropped(dbtxn, "DB_TRANSACTION_EXECUTE_FAILED")
                            ELSE [dbtxn EXCEPT
                                      !.call.pending =
                                          IF statement.rows > 0
                                          THEN c.pending \cup {statement.sql}
                                          ELSE c.pending,
                                      !.call.results =
                                          Append(c.results, exec_result(statement.rows))]

\* txn.commit() after the loop, and the return of the results.
TxnCommit ==
    \E io_ok \in BOOLEAN :
        \E c \in {dbtxn.call} :
            /\ c.pc = "loop"
            /\ Len(c.results) = Len(c.statements)
            /\ dbtxn' = IF ~io_ok
                        THEN txn_dropped(dbtxn, "DB_TRANSACTION_COMMIT_FAILED")
                        ELSE [dbtxn EXCEPT !.rows = dbtxn.rows \cup c.pending,
                                           !.call.pc = "idle",
                                           !.call.returned = TRUE,
                                           !.call.ok = TRUE,
                                           !.call.pending = {},
                                           !.call.value = c.results]

TxnNext ==
    /\ \/ DbTransaction
       \/ TxnExecute
       \/ TxnCommit
    /\ UNCHANGED <<framerVars, pathVars, unpackVars, call, tcp, db, reg, par, pool, lk>>

----------------------------------------------------------------------------
(* Plugin store: calls of concurrent tasks on one filesystem               *)

PluginQ == <<"q">>

\* The content of a file that File::create has just created or truncated.
EmptyFile == [kind |-> "empty"]

ParTasks == {1, 2}

ZipOf(id, v) == <<ManifestEntry(id, v, <<"a">>), FileA>>

ParRequest(op, plugin_id, version, archive) ==
    [op |-> op, plugin_id |-> plugin_id, version |-> version, archive |-> archive]

\* The calls of a task: installs of a good archive and of one without
\* plugin.json, disable and get_installed, for plugin p or q of server s.
\* The server answers every call with its id and delivers the archive, whose
\* digest is the expected one.
ParRequests ==
    UNION {{ParRequest("install_from_url", id, Version1, ZipOf(id, Version1)),
            ParRequest("install_from_url", id, Version1, NoManifestZip),
            ParRequest("disable", id, <<>>, <<>>),
            ParRequest("get_installed", id, <<>>, <<>>)} : id \in {PluginP, PluginQ}}

NoParTask ==
    [pc |-> "idle", req |-> ParRequest("", <<>>, <<>>, <<>>), root |-> PluginsBase,
     i |-> 0, target |-> PluginsBase, data |-> EmptyFile, next |-> "",
     versions |-> <<>>, current |-> [ok |-> FALSE, some |-> FALSE, val |-> EmptyFile],
     returned |-> FALSE, ok |-> FALSE, err |-> "", some |-> FALSE,
     state |-> NoInstalledState, read_as_absent |-> FALSE, overlapped |-> FALSE,
     key |-> <<>>, value |-> <<>>, before |-> <<>>, got |-> <<>>, calls |-> 0,
     set_ok |-> FALSE, set_key |-> <<>>, set_value |-> <<>>]

NoPar == [fs0 |-> EmptyFs, fs |-> EmptyFs, task |-> [t \in ParTasks |-> NoParTask]]

ParIdle == par = NoPar

\* Both plugins installed in version 1, p enabled.
FsBothInstalled ==
    enable("unix", GoodNet(NotAZip),
           finish_install("unix",
                          finish_install("unix", EmptyFs, ServerS, PluginP, Version1,
                                         ZipOf(PluginP, Version1)).fs,
                          ServerS, PluginQ, Version1, ZipOf(PluginQ, Version1)).fs,
           HttpSocket, PluginP, <<>>, <<>>).fs

ParStart == par \in {[NoPar EXCEPT !.fs0 = f, !.fs = f] : f \in {EmptyFs, FsBothInstalled}}

\* The task's call returns.
ParReturned(tk, ok, err, some, state) ==
    [tk EXCEPT !.pc = "idle", !.returned = TRUE, !.ok = ok, !.err = err, !.some = some,
               !.state = state]

ParErr(tk, err) == ParReturned(tk, FALSE, err, FALSE, NoInstalledState)

\* The version directory of an install.
ParVersionDir(tk) == plugin_version_dir(ServerS, Trim(tk.req.plugin_id), Trim(tk.req.version))

\* A task starts a call: the opening of the call (origin, client, server id)
\* and, for an install, the download and the digest check succeed and leave
\* the filesystem alone.
ParCall ==
    \E t \in ParTasks, r \in ParRequests :
        /\ par.task[t].pc = "idle"
        /\ ~par.task[t].returned
        /\ par' = [par EXCEPT !.task[t] =
                       [NoParTask EXCEPT
                            !.req = r,
                            !.root = plugin_root_dir(ServerS, Trim(r.plugin_id)).path,
                            !.overlapped = \E u \in ParTasks \ {t} : par.task[u].pc # "idle",
                            !.pc = CASE r.op = "install_from_url" -> "create_version_dir"
                                     [] r.op = "disable" -> "read_current"
                                     [] OTHER -> "root_exists"]]

\* install: create_dir_all(version_dir).
CreateVersionDir ==
    \E t \in ParTasks :
        \E tk \in {par.task[t]} :
            /\ tk.pc = "create_version_dir"
            /\ \E mk \in {create_dir_all(par.fs, ParVersionDir(tk).path)} :
                   par' = IF ~mk.ok
                          THEN [par EXCEPT !.task[t] = ParErr(tk, "Failed to create dir")]
                          ELSE [par EXCEPT !.fs = mk.fs,
                                           !.task[t].pc = "unpack",
                                           !.task[t].i = 1]

\* install: one turn of the second loop of the unpack task, which writes
\* entry i.
UnpackEntry ==
    \E t \in ParTasks :
        \E tk \in {par.task[t]} :
            /\ tk.pc = "unpack"
            /\ \E un \in {unpack_entries("unix", par.fs, ParVersionDir(tk).path,
                                         SubSeq(tk.req.archive, 1, tk.i),
                                         detect_single_root_prefix(zip_file_names(tk.req.archive)),
                                         tk.i, <<>>)} :
                   par' = IF ~un.ok
                          THEN [par EXCEPT !.fs = un.fs,
                                           !.task[t] = ParErr(tk, "Invalid zip archive")]
                          ELSE [par EXCEPT !.fs = un.fs,
                                           !.task[t].i = tk.i + 1,
                                           !.task[t].pc =
                                               IF tk.i = Len(tk.req.archive)
                                               THEN "read_manifest" ELSE "unpack"]

\* install: plugin.json is read and checked against the request.
ReadManifest ==
    \E t \in ParTasks :
        \E tk \in {par.task[t]} :
            /\ tk.pc = "read_manifest"
            /\ \E raw \in {read_to_string(par.fs, Child(ParVersionDir(tk).path, PluginJsonName))} :
                   par' = [par EXCEPT !.task[t] =
                       IF ~raw.ok THEN ParErr(tk, "Missing plugin.json")
                       ELSE IF raw.data.kind # "manifest" THEN ParErr(tk, "Invalid plugin.json")
                       ELSE IF Trim(raw.data.plugin_id) # Trim(tk.req.plugin_id)
                            THEN ParErr(tk, "plugin_id mismatch in manifest")
                       ELSE IF Trim(raw.data.version) # Trim(tk.req.version)
                            THEN ParErr(tk, "version mismatch in manifest")
                       ELSE IF Trim(raw.data.entry) = <<>>
                            THEN ParErr(tk, "Manifest entry is empty")
                       ELSE [tk EXCEPT !.pc = "read_current"]]

\* install and disable: read_current, and what the call does with it. An
\* install writes current.json when there is none and then state.json;
\* disable fails when there is none and otherwise writes it back with
\* enabled = false.
ReadCurrent ==
    \E t \in ParTasks :
        \E tk \in {par.task[t]} :
            /\ tk.pc = "read_current"
            /\ \E cur \in {read_current(par.fs, tk.root)} :
                 \E seen \in {[tk EXCEPT !.read_as_absent =
                                   @ \/ (cur.ok /\ ~cur.some
                                         /\ IsFile(par.fs, Child(tk.root, CurrentJsonName)))]} :
                   par' = [par EXCEPT !.task[t] =
                       IF ~cur.ok THEN ParErr(seen, "Failed to parse JSON")
                       ELSE IF tk.req.op = "disable" /\ ~cur.some
                            THEN ParErr(seen, "Plugin is not installed")
                       ELSE IF tk.req.op = "disable"
                            THEN [seen EXCEPT !.pc = "ensure_dir",
                                              !.target = Child(tk.root, CurrentJsonName),
                                              !.data = [cur.val EXCEPT !.enabled = FALSE],
                                              !.next = "build"]
                       ELSE IF cur.some
                            THEN [seen EXCEPT !.pc = "ensure_dir",
                                              !.target = Child(tk.root, StateJsonName),
                                              !.data = OkState,
                                              !.next = "build"]
                       ELSE [seen EXCEPT !.pc = "ensure_dir",
                                         !.target = Child(tk.root, CurrentJsonName),
                                         !.data = CurrentData(Trim(tk.req.version), FALSE),
                                         !.next = "write_state"]]

\* write_json_file: ensure_dir.
EnsureDir ==
    \E t \in ParTasks :
        \E tk \in {par.task[t]} :
            /\ tk.pc = "ensure_dir"
            /\ \E d \in {create_dir_all(par.fs, Parent(tk.target))} :
                   par' = IF ~d.ok
                          THEN [par EXCEPT !.task[t] = ParErr(tk, "Failed to write file")]
                          ELSE [par EXCEPT !.fs = d.fs, !.task[t].pc = "create"]

\* write_json_file: fs::write opens the file with create and truncate.
CreateFile ==
    \E t \in ParTasks :
        \E tk \in {par.task[t]} :
            /\ tk.pc = "create"
            /\ \E w \in {write_file(par.fs, tk.target, EmptyFile)} :
                   par' = IF ~w.ok
                          THEN [par EXCEPT !.task[t] = ParErr(tk, "Failed to write file")]
                          ELSE [par EXCEPT !.fs = w.fs, !.task[t].pc = "write"]

\* write_json_file: fs::write writes the content; an install then goes on to
\* state.json, every call ends with build_installed_state.
WriteAll ==
    \E t \in ParTasks :
        \E tk \in {par.task[t]} :
            /\ tk.pc = "write"
            /\ \E w \in {write_file(par.fs, tk.target, tk.data)} :
                   par' = IF ~w.ok
                          THEN [par EXCEPT !.task[t] = ParErr(tk, "Failed to write file")]
                          ELSE IF tk.next = "write_state"
                          THEN [par EXCEPT !.fs = w.fs,
                                           !.task[t].pc = "ensure_dir",
                                           !.task[t].target = Child(tk.root, StateJsonName),
                                           !.task[t].data = OkState,
                                           !.task[t].next = "build"]
                          ELSE [par EXCEPT !.fs = w.fs, !.task[t].pc = "list_versions"]

\* get_installed: Ok(None) when the plugin root does not exist.
RootExists ==
    \E t \in ParTasks :
        \E tk \in {par.task[t]} :
            /\ tk.pc = "root_exists"
            /\ par' = [par EXCEPT !.task[t] =
                           IF ~Exists(par.fs, tk.root)
                           THEN ParReturned(tk, TRUE, "", FALSE, NoInstalledState)
                           ELSE [tk EXCEPT !.pc = "list_versions"]]

\* build_installed_state: list_installed_versions.
ListVersions ==
    \E t \in ParTasks :
        \E tk \in {par.task[t]} :
            /\ tk.pc = "list_versions"
            /\ \E versions \in {list_installed_versions(par.fs, tk.root)} :
                   par' = [par EXCEPT !.task[t] =
                               IF ~versions.ok THEN ParErr(tk, "Failed to parse JSON")
                               ELSE [tk EXCEPT !.versions = versions.val,
                                               !.pc = "build_current"]]

\* build_installed_state: read_current.
BuildReadCurrent ==
    \E t \in ParTasks :
        \E tk \in {par.task[t]} :
            /\ tk.pc = "build_current"
            /\ \E cur \in {read_current(par.fs, tk.root)} :
                   par' = [par EXCEPT !.task[t] =
                               IF ~cur.ok THEN ParErr(tk, "Failed to parse JSON")
                               ELSE [tk EXCEPT !.current = cur,
                                               !.pc = "build_state",
                                               !.read_as_absent =
                                                   @ \/ (~cur.some
                                                         /\ IsFile(par.fs,
                                                                   Child(tk.root, CurrentJsonName)))]]

\* build_installed_state: read_state_file and the state returned.
BuildReadState ==
    \E t \in ParTasks :
        \E tk \in {par.task[t]} :
            /\ tk.pc = "build_state"
            /\ \E st \in {read_state_file(par.fs, tk.root)} :
                   par' = [par EXCEPT !.task[t] =
                       IF ~st.ok THEN ParErr(tk, "Failed to parse JSON")
                       ELSE ParReturned(tk, TRUE, "", TRUE,
                                [installed_versions |-> tk.versions,
                                 has_current |-> tk.current.some,
                                 current_version |-> IF tk.current.some
                                                     THEN tk.current.val.version ELSE <<>>,
                                 enabled |-> IF tk.current.some
                                             THEN tk.current.val.enabled ELSE FALSE,
                                 status |-> st.val.status,
                                 last_error |-> st.val.last_error])]

ParNext ==
    /\ \/ ParCall
       \/ CreateVersionDir
       \/ UnpackEntry
       \/ ReadManifest
       \/ ReadCurrent
       \/ EnsureDir
       \/ CreateFile
       \/ WriteAll
       \/ RootExists
       \/ ListVersions
       \/ BuildReadCurrent
       \/ BuildReadState
    /\ UNCHANGED <<framerVars, pathVars, unpackVars, call, tcp, db, reg, dbtxn, pool, lk>>

----------------------------------------------------------------------------
(* Plugin store: storage_set and storage_get of concurrent tasks           *)

\* Bound: storage calls of one task, a storage_set first if it makes one.
MaxStorageCalls == 2

StorageKeys == {<<"a">>, <<"b">>}

StorageValues == {<<"1">>, <<"2">>}

\* storage.json of plugin p of server s.
StorageFile == Child(plugin_root_dir(ServerS, PluginP).path, StorageJsonName)

\* The map in storage.json; the empty map when the file is not there, and
\* <<"invalid">> when it does not parse.
StoredMap(f) ==
    LET raw == read_to_string(f, StorageFile) IN
    IF raw.ok /\ raw.data.kind = "storage" THEN raw.data.map
    ELSE IF raw.ok THEN <<"invalid">>
    ELSE <<>>

\* No plugin area, plugin p installed without storage.json, and plugin p with
\* a storage.json that holds b.
StorageStart ==
    par \in {[NoPar EXCEPT !.fs0 = f, !.fs = f] :
                f \in {EmptyFs, FsBothInstalled,
                       write_file(FsBothInstalled, StorageFile,
                                  StorageData([k \in {<<"b">>} |-> <<"0">>])).fs}}

\* The call returns.
StorageReturned(tk, ok, err) ==
    IF ok /\ tk.req.op = "storage_set"
    THEN [tk EXCEPT !.pc = "idle", !.returned = TRUE, !.ok = TRUE, !.err = err,
                    !.set_ok = TRUE, !.set_key = tk.key, !.set_value = tk.value]
    ELSE [tk EXCEPT !.pc = "idle", !.returned = TRUE, !.ok = ok, !.err = err]

\* A task calls storage_set(key, value) or storage_get(key) for plugin p; the
\* opening of the call (origin, client, server id) succeeds.
StorageCall ==
    \E t \in ParTasks, op \in {"storage_set", "storage_get"}, key \in StorageKeys,
       value \in StorageValues :
        /\ par.task[t].pc = "idle"
        /\ par.task[t].calls < MaxStorageCalls
        /\ op = "storage_set" => par.task[t].calls = 0
        /\ op = "storage_get" => value = <<"1">>
        /\ par' = [par EXCEPT !.task[t] =
                       [par.task[t] EXCEPT
                            !.req = ParRequest(op, PluginP, <<>>, <<>>),
                            !.key = key,
                            !.value = IF op = "storage_set" THEN value ELSE <<>>,
                            !.before = StoredMap(par.fs),
                            !.calls = @ + 1,
                            !.returned = FALSE, !.ok = FALSE, !.err = "", !.some = FALSE,
                            !.got = <<>>,
                            !.pc = IF op = "storage_set" THEN "storage_read"
                                   ELSE "storage_get"]]

\* storage_set: read_to_string(storage.json), from_str, map.insert.
StorageSetRead ==
    \E t \in ParTasks :
        \E tk \in {par.task[t]} :
            /\ tk.pc = "storage_read"
            /\ \E raw \in {read_to_string(par.fs, StorageFile)} :
                   par' = [par EXCEPT !.task[t] =
                       IF ~raw.ok /\ ~raw.not_found
                       THEN StorageReturned(tk, FALSE, "Failed to read storage.json")
                       ELSE IF raw.ok /\ raw.data.kind # "storage"
                            THEN StorageReturned(tk, FALSE, "Invalid storage.json")
                       ELSE [tk EXCEPT
                                !.pc = "storage_mkdir",
                                !.data =
                                    StorageData(
                                        [k \in (IF raw.ok THEN DOMAIN raw.data.map ELSE {})
                                                \cup {tk.key} |->
                                            IF k = tk.key THEN tk.value ELSE raw.data.map[k]])]]

\* storage_set: create_dir_all(parent).
StorageSetMkdir ==
    \E t \in ParTasks :
        \E tk \in {par.task[t]} :
            /\ tk.pc = "storage_mkdir"
            /\ \E mk \in {create_dir_all(par.fs, Parent(StorageFile))} :
                   par' = IF ~mk.ok
                          THEN [par EXCEPT !.task[t] =
                                    StorageReturned(tk, FALSE, "Failed to create dir")]
                          ELSE [par EXCEPT !.fs = mk.fs, !.task[t].pc = "storage_create"]

\* storage_set: fs::write opens storage.json with create and truncate.
StorageSetCreate ==
    \E t \in ParTasks :
        \E tk \in {par.task[t]} :
            /\ tk.pc = "storage_create"
            /\ \E w \in {write_file(par.fs, StorageFile, EmptyFile)} :
                   par' = IF ~w.ok
                          THEN [par EXCEPT !.task[t] =
                                    StorageReturned(tk, FALSE, "Failed to write")]
                          ELSE [par EXCEPT !.fs = w.fs, !.task[t].pc = "storage_write"]

\* storage_set: fs::write writes the serialized map; Ok(()).
StorageSetWrite ==
    \E t \in ParTasks :
        \E tk \in {par.task[t]} :
            /\ tk.pc = "storage_write"
            /\ \E w \in {write_file(par.fs, StorageFile, tk.data)} :
                   par' = IF ~w.ok
                          THEN [par EXCEPT !.task[t] =
                                    StorageReturned(tk, FALSE, "Failed to write")]
                          ELSE [par EXCEPT !.fs = w.fs,
                                           !.task[t] = StorageReturned(tk, TRUE, "")]

\* storage_get: read_to_string(storage.json), from_str, map.get(key).
StorageGetRead ==
    \E t \in ParTasks :
        \E tk \in {par.task[t]} :
            /\ tk.pc = "storage_get"
            /\ \E raw \in {read_to_string(par.fs, StorageFile)} :
                   par' = [par EXCEPT !.task[t] =
                       IF ~raw.ok /\ raw.not_found THEN StorageReturned(tk, TRUE, "")
                       ELSE IF ~raw.ok
                            THEN StorageReturned(tk, FALSE, "Failed to read storage.json")
                       ELSE IF raw.data.kind # "storage"
                            THEN StorageReturned(tk, FALSE, "Invalid storage.json")
                       ELSE IF tk.key \notin DOMAIN raw.data.map
                            THEN StorageReturned(tk, TRUE, "")
                       ELSE [StorageReturned(tk, TRUE, "") EXCEPT
                                !.some = TRUE, !.got = raw.data.map[tk.key]]]

StorageNext ==
    /\ \/ StorageCall
       \/ StorageSetRead
       \/ StorageSetMkdir
       \/ StorageSetCreate
       \/ StorageSetWrite
       \/ StorageGetRead
    /\ UNCHANGED <<framerVars, pathVars, unpackVars, call, tcp, db, reg, dbtxn, pool, lk>>

----------------------------------------------------------------------------
(* Connection pool options: get_config_value::<u32> and CPDatabase::new    *)

\* Unsigned integers are written in two digits of base 2^16: hi * 2^16 + lo
\* with 0 <= lo < 2^16. A u32 has hi < 2^16; the u64 values of the model have
\* hi up to 2^16 + 1.
U16Modulus == 65536

Wide(hi, lo) == [hi |-> hi, lo |-> lo]

WideGt(a, b) == a.hi > b.hi \/ (a.hi = b.hi /\ a.lo > b.lo)

\* `as u32` of a u64: the low 32 bits.
AsU32(n) == Wide(n.hi % U16Modulus, n.lo)

Zero == Wide(0, 0)

DefaultMaxConn == Wide(0, 5)

DefaultMinConn == Wide(0, 1)

U32Max == Wide(U16Modulus - 1, U16Modulus - 1)

\* A value of the configuration object under a key: none, or a JSON value. A
\* number is negative or not, is an integer (int = TRUE) or has a fraction;
\* val is its magnitude without the fraction.
JsonMissing == [kind |-> "missing", int |-> FALSE, negative |-> FALSE, val |-> Zero]

JsonNull == [kind |-> "null", int |-> FALSE, negative |-> FALSE, val |-> Zero]

JsonString == [kind |-> "string", int |-> FALSE, negative |-> FALSE, val |-> Zero]

JsonNumber(val, int, negative) ==
    [kind |-> "number", int |-> int, negative |-> negative, val |-> val]

\* Configured numbers: 0, small ones around the defaults, u32::MAX and its
\* neighbour below, 2^32 and 2^32 + 3, -1, and the fractions 0.5 and 2.5.
ConfigNumbers ==
    {JsonNumber(n, TRUE, FALSE) :
        n \in {Zero, Wide(0, 1), Wide(0, 2), Wide(0, 5), Wide(0, 6),
               Wide(U16Modulus - 1, U16Modulus - 2), U32Max,
               Wide(U16Modulus, 0), Wide(U16Modulus, 3)}}
    \cup {JsonNumber(Wide(0, 1), TRUE, TRUE)}
    \cup {JsonNumber(n, FALSE, FALSE) : n \in {Zero, Wide(0, 2)}}

ConfigValues == {JsonMissing, JsonNull, JsonString} \cup ConfigNumbers

\* The configuration file as get_config_value parses it: a JSON object with
\* the two keys, or something that is no object.
Config(object, max, min) == [object |-> object, max |-> max, min |-> min]

Configs ==
    {Config(TRUE, max, min) : max \in ConfigValues, min \in ConfigValues}
    \cup {Config(FALSE, JsonMissing, JsonMissing)}

\* Value::as_number().and_then(as_u64): the non-negative integers.
as_u64(value) ==
    IF value.kind = "number" /\ value.int /\ ~value.negative
    THEN [some |-> TRUE, val |-> value.val]
    ELSE [some |-> FALSE, val |-> Zero]

\* <u32 as ConfigValueExtractor>::extract: as_u64 or 0, cast to u32.
extract_u32(value) == AsU32(IF as_u64(value).some THEN as_u64(value).val ELSE Zero)

\* get_config_value::<u32>(key) on configuration c: extract of the value
\* under the key, u32::default() when the key is missing or c is no object.
get_config_value(c, key) ==
    IF ~c.object THEN Zero
    ELSE IF c[key].kind = "missing" THEN Zero
    ELSE extract_u32(c[key])

\* The variant of pool_options that leaves min_conn above max_conn.
pool_options_min_unbounded(max_conn, min_conn) ==
    [max_connections |-> IF max_conn = Zero THEN DefaultMaxConn ELSE max_conn,
     min_connections |-> IF min_conn = Zero THEN DefaultMinConn ELSE min_conn]

\* CPDatabase::new: the pool sizes handed to ConnectOptions.
pool_options(max_conn, min_conn) ==
    The({
        [max_connections |-> max1,
         min_connections |-> IF WideGt(min1, max1) THEN max1 ELSE min1]
        : max1 \in {IF max_conn = Zero THEN DefaultMaxConn ELSE max_conn},
          min1 \in {IF min_conn = Zero THEN DefaultMinConn ELSE min_conn}})

NoPool ==
    [pc |-> "idle", config |-> Config(FALSE, JsonMissing, JsonMissing), max_conn |-> Zero,
     min_conn |-> Zero, max_connections |-> Zero, min_connections |-> Zero]

PoolIdle == pool = NoPool

PoolStart == pool \in {[NoPool EXCEPT !.pc = "new", !.config = c] : c \in Configs}

\* CPDatabase::new reads database_pool_max_connections.
GetMaxConnections ==
    /\ pool.pc = "new"
    /\ pool' = [pool EXCEPT !.pc = "max_read",
                            !.max_conn = get_config_value(pool.config, "max")]

\* CPDatabase::new reads database_pool_min_connections.
GetMinConnections ==
    /\ pool.pc = "max_read"
    /\ pool' = [pool EXCEPT !.pc = "min_read",
                            !.min_conn = get_config_value(pool.config, "min")]

\* CPDatabase::new corrects the two sizes and opens the pool with them.
OpenPool ==
    /\ pool.pc = "min_read"
    /\ \E o \in {pool_options(pool.max_conn, pool.min_conn)} :
           pool' = [pool EXCEPT !.pc = "opened",
                                !.max_connections = o.max_connections,
                                !.min_connections = o.min_connections]

PoolNext ==
    /\ \/ GetMaxConnections
       \/ GetMinConnections
       \/ OpenPool
    /\ UNCHANGED <<framerVars, pathVars, unpackVars, call, tcp, db, reg, dbtxn, par, lk>>

----------------------------------------------------------------------------
(* Session registry: the lock of concurrent calls                          *)

\* Commands running at the same time, each making one registry call.
LockCallers == {1, 2, 3}

\* Bound: bytes in the data of one send.
MaxSendLen == 2

\* The data of caller c's send.
SendData(c) == [n \in 1..MaxSendLen |-> [by |-> c, n |-> n]]

\* Bound: connections opened under the key (the registered one and one per
\* caller).
MaxConns == 4

\* The program points of a call during which its guard `lock` is alive, with
\* the guard of send dropped once the backend was looked up.
lock_scope_send_until_lookup(op) ==
    CASE op = "add" -> {"connect", "insert"}
      [] op = "send" -> {"lookup"}
      [] op = "listen" -> {"start"}

\* The program points of a call during which its guard `lock` is alive: from
\* `registry.write().await` to the end of the function.
lock_scope(op) ==
    CASE op = "add" -> {"connect", "insert"}
      [] op = "send" -> {"lookup", "write"}
      [] op = "listen" -> {"start"}

\* The first program point after `registry.write().await`.
first_pc(op) ==
    CASE op = "add" -> "connect"
      [] op = "send" -> "lookup"
      [] op = "listen" -> "start"

NoCaller == [pc |-> "idle", op |-> "", target |-> 0, sent |-> 0, ok |-> FALSE, err |-> ""]

\* The lock (its holder, 0 when free, and the callers queued on it in order
\* of arrival), the callers, the connection registered under the key (0 when
\* none) and the bytes written to each connection.
NoLock ==
    [holder |-> 0, queue |-> <<>>, caller |-> [c \in LockCallers |-> NoCaller],
     registered |-> 0, conns |-> 0, written |-> [g \in 1..MaxConns |-> <<>>]]

LockIdle == lk = NoLock

\* An initialised registry, empty or with one real session under the key.
LockStart ==
    \/ lk = NoLock
    \/ lk = [NoLock EXCEPT !.registered = 1, !.conns = 1]

\* Caller c goes to program point pc; the lock is released when pc is
\* outside the scope of the guard.
Goto(l, c, pc) ==
    [l EXCEPT !.caller[c].pc = pc,
              !.holder = IF @ = c /\ pc \notin lock_scope(l.caller[c].op) THEN 0 ELSE @]

\* Caller c returns Ok(()) or Err(err).
Return(l, c, ok, err) ==
    [Goto(l, c, "done") EXCEPT !.caller[c].ok = ok, !.caller[c].err = err]

\* A command calls add, send or listen and reaches `registry.write().await`.
LockCall ==
    \E c \in LockCallers, op \in {"add", "send", "listen"} :
        /\ lk.caller[c].pc = "idle"
        /\ lk' = [lk EXCEPT !.caller[c].pc = "wait", !.caller[c].op = op,
                            !.queue = Append(@, c)]

\* RwLock::write grants the lock, when it is free, to the first in the queue.
LockAcquire ==
    \E c \in LockCallers :
        /\ lk.caller[c].pc = "wait"
        /\ lk.holder = 0
        /\ lk.queue # <<>> /\ Head(lk.queue) = c
        /\ lk' = [lk EXCEPT !.holder = c, !.queue = Tail(@),
                            !.caller[c].pc = first_pc(lk.caller[c].op)]

\* add_tcp_service: TcpServiceReal::connect returns (release build).
AddConnect ==
    \E c \in LockCallers, connected \in BOOLEAN :
        /\ lk.caller[c].pc = "connect"
        /\ lk' = IF connected THEN Goto(lk, c, "insert")
                 ELSE Return(lk, c, FALSE, "Failed to connect TCP stream")

\* add_tcp_service: backend.start, map.insert, Ok(()).
AddInsert ==
    \E c \in LockCallers :
        /\ lk.caller[c].pc = "insert"
        /\ lk.conns < MaxConns
        /\ lk' = [Return(lk, c, TRUE, "") EXCEPT !.conns = @ + 1, !.registered = lk.conns + 1]

\* send_tcp_service: map.get_mut(&server_socket).
SendLookup ==
    \E c \in LockCallers :
        /\ lk.caller[c].pc = "lookup"
        /\ lk' = IF lk.registered = 0
                 THEN Return(lk, c, FALSE, "TCP service not found for server_socket")
                 ELSE [Goto(lk, c, "write") EXCEPT !.caller[c].target = lk.registered]

\* send_tcp_service: one poll of write_all on the backend's writer: it
\* writes some of the bytes that are left, or fails; after the last byte the
\* call returns Ok(()).
SendWrite ==
    \E c \in LockCallers :
        LET t == lk.caller[c] IN
        /\ t.pc = "write"
        /\ \/ \E n \in 1..(MaxSendLen - t.sent) :
                 LET w == [lk EXCEPT !.written[t.target] =
                                         @ \o SubSeq(SendData(c), t.sent + 1, t.sent + n),
                                     !.caller[c].sent = @ + n]
                 IN lk' = IF t.sent + n = MaxSendLen THEN Return(w, c, TRUE, "") ELSE w
           \/ lk' = Return(lk, c, FALSE, "Failed to send TCP data")

\* listen_tcp_service: map.get_mut, backend.start, Ok(()).
ListenStart ==
    \E c \in LockCallers :
        /\ lk.caller[c].pc = "start"
        /\ lk' = IF lk.registered = 0
                 THEN Return(lk, c, FALSE, "TCP service not found for server_socket")
                 ELSE Return(lk, c, TRUE, "")

\* The steps of a call after it was made.
LockProgress ==
    \/ LockAcquire
    \/ AddConnect
    \/ AddInsert
    \/ SendLookup
    \/ SendWrite
    \/ ListenStart

LockNext ==
    /\ \/ LockCall
       \/ LockAcquire
       \/ AddConnect
       \/ AddInsert
       \/ SendLookup
       \/ SendWrite
       \/ ListenStart
    /\ UNCHANGED <<framerVars, pathVars, unpackVars, call, tcp, db, reg, dbtxn, par, pool>>

----------------------------------------------------------------------------
(* Specifications: one per component, the other components at rest         *)

FramerInit == FramerStart /\ PathIdle /\ UnpackIdle /\ CallIdle /\ TcpIdle /\ DbIdle /\ RegIdle /\ TxnIdle /\ ParIdle /\ PoolIdle /\ LockIdle

SpecFramer == FramerInit /\ [][FramerNext]_vars

PathInit == PathStart /\ FramerIdle /\ UnpackIdle /\ CallIdle /\ TcpIdle /\ DbIdle /\ RegIdle /\ TxnIdle /\ ParIdle /\ PoolIdle /\ LockIdle

SpecPath == PathInit /\ [][PathNext]_vars

UnpackInit ==
    /\ UnpackStart
    /\ FramerIdle
    /\ platform \in {"unix", "windows"}
    /\ pathCall = NoPathCall
    /\ CallIdle
    /\ TcpIdle
    /\ DbIdle /\ RegIdle /\ TxnIdle /\ ParIdle /\ PoolIdle /\ LockIdle

SpecUnpack == UnpackInit /\ [][UnpackNext]_vars

CallInit ==
    /\ CallStart
    /\ FramerIdle
    /\ pathCall = NoPathCall
    /\ unpackCall = NoUnpackCall
    /\ TcpIdle
    /\ DbIdle /\ RegIdle /\ TxnIdle /\ ParIdle /\ PoolIdle /\ LockIdle

SpecCall == CallInit /\ [][CallNext]_vars

StoreInit ==
    /\ StoreStart
    /\ FramerIdle
    /\ pathCall = NoPathCall
    /\ unpackCall = NoUnpackCall
    /\ TcpIdle
    /\ DbIdle /\ RegIdle /\ TxnIdle /\ ParIdle /\ PoolIdle /\ LockIdle

SpecStore == StoreInit /\ [][CallNext]_vars

SessionInit == TcpStart /\ FramerIdle /\ PathIdle /\ UnpackIdle /\ CallIdle /\ DbIdle /\ RegIdle /\ TxnIdle /\ ParIdle /\ PoolIdle /\ LockIdle

SpecSession == SessionInit /\ [][TcpNext]_vars

SpecEvents == SessionInit /\ [][EventsNext]_vars

DatabaseInit ==
    /\ DbStart
    /\ FramerIdle
    /\ PathIdle
    /\ UnpackIdle
    /\ CallIdle
    /\ TcpIdle
    /\ RegIdle /\ TxnIdle /\ ParIdle /\ PoolIdle /\ LockIdle

SpecDb == DatabaseInit /\ [][DbNext]_vars

RegistryInit ==
    /\ RegStart
    /\ FramerIdle
    /\ PathIdle
    /\ UnpackIdle
    /\ CallIdle
    /\ TcpIdle
    /\ DbIdle
    /\ TxnIdle /\ ParIdle /\ PoolIdle /\ LockIdle

SpecRegistry == RegistryInit /\ [][RegistryNext]_vars

SpecDbFiles == RegistryInit /\ [][DbFilesNext]_vars

TransactionInit ==
    /\ TxnStart
    /\ FramerIdle
    /\ PathIdle
    /\ UnpackIdle
    /\ CallIdle
    /\ TcpIdle
    /\ DbIdle
    /\ RegIdle
    /\ ParIdle /\ PoolIdle /\ LockIdle

SpecTransaction == TransactionInit /\ [][TxnNext]_vars

ConcurrentInit ==
    /\ ParStart
    /\ FramerIdle
    /\ PathIdle
    /\ UnpackIdle
    /\ CallIdle
    /\ TcpIdle
    /\ DbIdle
    /\ RegIdle
    /\ TxnIdle
    /\ PoolIdle /\ LockIdle

SpecConcurrent == ConcurrentInit /\ [][ParNext]_vars

StorageInit ==
    /\ StorageStart
    /\ FramerIdle
    /\ PathIdle
    /\ UnpackIdle
    /\ CallIdle
    /\ TcpIdle
    /\ DbIdle
    /\ RegIdle
    /\ TxnIdle
    /\ PoolIdle
    /\ LockIdle

SpecStorage == StorageInit /\ [][StorageNext]_vars

PoolInit ==
    /\ PoolStart
    /\ FramerIdle
    /\ PathIdle
    /\ UnpackIdle
    /\ CallIdle
    /\ TcpIdle
    /\ DbIdle
    /\ RegIdle
    /\ TxnIdle
    /\ ParIdle
    /\ LockIdle

SpecPool == PoolInit /\ [][PoolNext]_vars

LockInit ==
    /\ LockStart
    /\ FramerIdle
    /\ PathIdle
    /\ UnpackIdle
    /\ CallIdle
    /\ TcpIdle
    /\ DbIdle
    /\ RegIdle
    /\ TxnIdle
    /\ ParIdle
    /\ PoolIdle

\* Every await of a call that was made completes: the lock is granted in
\* order of arrival, connect and each poll of the write return.
SpecLock == LockInit /\ [][LockNext]_vars /\ WF_vars(LockProgress /\ LockNext)

----------------------------------------------------------------------------
(* Reference reading of a byte stream as length-prefixed records           *)

\* Payloads of the complete records of non-zero length of stream b, in order.
RECURSIVE RecordsOf(_)
RecordsOf(b) ==
    IF Len(b) < 2 THEN <<>>
    ELSE LET len == b[1] * 256 + b[2] IN
         IF len = 0 THEN RecordsOf(Drop(b, 2))
         ELSE IF Len(b) < 2 + len THEN <<>>
         ELSE <<SubSeq(b, 3, 2 + len)>> \o RecordsOf(Drop(b, 2 + len))

\* C1: whatever the chunking, the tcp-frame payloads emitted so far are, in
\* order, exactly the payloads of the complete non-zero-length records of the
\* bytes received so far: nothing partial, nothing twice, length 0 skipped.
C1_FramesAreRecords == frames = RecordsOf(SubSeq(stream, 1, received))

\* C1 witness: the scenario stream was read in more than one chunk, a frame
\* was split across two reads, and "ABC" then "XY" came out.
C1_Witness ==
    /\ stream = ScenarioStream
    /\ received = Len(stream)
    /\ Len(rawEvents) >= 3
    /\ Len(rawEvents[1]) = 3
    /\ frames = <<(<<65, 66, 67>>), (<<88, 89>>)>>

\* No component of the path is "..".
NoDotDot(path) == \A i \in 1..Len(path.comps) : path.comps[i] # <<".", ".">>

\* C4: every path resolve_app_plugins_path returns (directly or for an app://
\* request) is anchored at the plugins base directory, lies strictly below a
\* three-segment version directory of it, and has no ".." component.
C4_ResolvedPathUnderBase ==
    (pathCall.pc = "done" /\ pathCall.ok) =>
        /\ pathCall.path.root = "plugins"
        /\ Len(pathCall.path.comps) > 3
        /\ NoDotDot(pathCall.path)

\* The same statement for a Unix build alone (a sanity check of the model,
\* not a claim): there ':' is an ordinary file-name character.
ResolvedPathUnderBaseOnUnix == platform = "unix" => C4_ResolvedPathUnderBase

\* Everything in filesystem f that is not in filesystem g.
CreatedSince(f, g) == (f.dirs \ g.dirs) \cup ((DOMAIN f.files) \ (DOMAIN g.files))

\* p lies inside directory d: same anchor, below it, and no ".." component.
LiesInside(p, d) ==
    /\ p.root = d.root
    /\ Len(p.comps) > Len(d.comps)
    /\ SubSeq(p.comps, 1, Len(d.comps)) = d.comps
    /\ NoDotDot(p)

\* The claim's unsafe names: the normalized name (backslashes replaced by '/',
\* leading '/' stripped) is not empty and has an empty, '.' or '..' segment or
\* contains ':'.
UnsafeEntryName(raw) ==
    LET n == TrimStartMatches(ReplaceChar(raw, "\\", "/"), "/")
        segs == Split(n, "/")
    IN /\ n # <<>>
       /\ \/ Contains(n, ":")
          \/ \E i \in 1..Len(segs) : segs[i] \in {<<>>, <<".">>, <<".", ".">>}

\* C5: after unpack_plugin_zip, whatever was created lies inside the version
\* directory; and if the archive has an entry with an unsafe name, the unpack
\* failed and created something only for entries before the first such entry.
C5_UnpackStaysInside ==
    unpackCall.pc = "done" =>
        /\ \A p \in CreatedSince(fs, FreshVersionDirFs) :
              LiesInside(p, VersionDir(Version1))
        /\ \A k \in 1..Len(unpackCall.archive) :
              (unpackCall.archive # NotAZip /\ UnsafeEntryName(unpackCall.archive[k].name)) =>
                  /\ ~unpackCall.ok
                  /\ \A j \in 1..Len(unpackCall.written) : unpackCall.written[j] < k

\* C5 witness: an archive whose first entry was written and whose second
\* entry, "../a", made the unpack fail.
C5_Witness ==
    /\ unpackCall.pc = "done"
    /\ ~unpackCall.ok
    /\ unpackCall.written = <<1>>
    /\ Len(unpackCall.archive) = 2
    /\ unpackCall.archive[2].name = <<".", ".", "/", "a">>
    /\ CreatedSince(fs, FreshVersionDirFs) # {}

InstallOps == {"install_from_url", "install_from_server_catalog"}

\* The catalog's entry for the plugin a catalog install asks for.
CatalogTarget(r) ==
    LET hits == SelectSeq(r.net.catalog.plugins, LAMBDA p : p.plugin_id = r.plugin_id)
    IN IF hits = <<>> THEN NoCatalogItem ELSE hits[1]

\* The digest an install request expects, and the version it installs.
ExpectedDigest(r) ==
    IF r.op = "install_from_url" THEN r.sha256 ELSE CatalogTarget(r).sha256

RequestedVersion(r) ==
    Trim(IF r.op = "install_from_url" THEN r.version ELSE CatalogTarget(r).version)

\* The expected digest differs from the digest of the bytes the download
\* delivers, compared without regard to case and surrounding blanks.
DigestMismatch(r) ==
    to_lowercase(Trim(ExpectedDigest(r))) # sha256_hex(r.net.download.bytes)

\* C2: an install call whose expected sha256 differs (case-insensitively, after
\* trimming) from the sha256 of the downloaded bytes fails and leaves the
\* filesystem exactly as it was: no version directory, no archive entry, no
\* change to current.json or state.json.
C2_ShaMismatchChangesNothing ==
    [][(call'.pc = "done" /\ call'.req.op \in InstallOps /\ DigestMismatch(call'.req))
          => (~call'.ok /\ fs' = fs)]_vars

\* C2 witness: an install_from_url on an enabled plugin was refused because of
\* the digest, after the download.
C2_Witness ==
    /\ call.pc = "done"
    /\ call.req.op = "install_from_url"
    /\ DigestMismatch(call.req)
    /\ call.err = "SHA256 mismatch"
    /\ Len(call.events) = 2
    /\ fs = FsEnabled1

\* The plugin root of server "s", plugin "p", and its two state files.
PluginRoot == [root |-> "plugins", comps |-> <<ServerS, PluginP>>]
CurrentJson == Child(PluginRoot, CurrentJsonName)
StateJson == Child(PluginRoot, StateJsonName)

\* current.json records enabled = true.
EnabledIn(f) ==
    LET c == read_current(f, PluginRoot) IN c.ok /\ c.some /\ c.val.enabled

\* The manifest of the selected version names an entry, and a file stands at
\* that place below the version directory.
EntryFileOnDisk(plat, f) ==
    LET c == read_current(f, PluginRoot)
        vd == VersionDir(c.val.version)
        m == read_to_string(f, Child(vd, PluginJsonName))
    IN /\ c.ok /\ c.some
       /\ m.ok /\ m.data.kind = "manifest"
       /\ Trim(m.data.entry) # <<>>
       /\ IsFile(f, PathJoin(plat, vd, Trim(m.data.entry)))

\* C3: enabled changes from false or absent to true only in a successful
\* enable call that found the entry file of the selected version on disk.
C3_EnabledOnlyAfterEntryFound ==
    [][(EnabledIn(fs') /\ ~EnabledIn(fs))
          => (call'.req.op = "enable" /\ call'.ok /\ EntryFileOnDisk(platform, fs))]_vars

\* The part of C3 about the other operations: enabled changes from false or
\* absent to true only in a successful enable call.
OnlyEnableSetsEnabled ==
    [][(EnabledIn(fs') /\ ~EnabledIn(fs)) => (call'.req.op = "enable" /\ call'.ok)]_vars

\* The call just finished is an install that got past the digest check.
PassedDigestCheck(c) ==
    LET IsHttp(e) == e.kind = "http" IN
    /\ c.pc = "done"
    /\ c.req.op \in InstallOps
    /\ Len(SelectSeq(c.events, IsHttp)) = (IF c.req.op = "install_from_url" THEN 2 ELSE 3)
    /\ c.req.net.download.ok
    /\ ~DigestMismatch(c.req)

\* Unpacking the request's archive into its version directory succeeds on
\* filesystem f and leaves a plugin.json there that is missing, unparsable,
\* names another plugin or version, or has an empty entry.
UnpacksToBadManifest(plat, f, r) ==
    LET vd == VersionDir(RequestedVersion(r))
        mk == create_dir_all(f, vd)
        un == unpack_plugin_zip(plat, mk.fs, vd, r.net.download.bytes)
        m == read_to_string(un.fs, Child(vd, PluginJsonName))
    IN /\ mk.ok /\ un.ok
       /\ \/ ~m.ok
          \/ m.data.kind # "manifest"
          \/ Trim(m.data.plugin_id) # Trim(r.plugin_id)
          \/ Trim(m.data.version) # RequestedVersion(r)
          \/ Trim(m.data.entry) = <<>>

\* What C10 promises of such an install: it fails, the version directory is
\* there, current.json is not created, existing current.json and state.json
\* keep their content.
KeepsSelection(f, g, c) ==
    /\ ~c.ok
    /\ IsDir(g, VersionDir(RequestedVersion(c.req)))
    /\ ~Exists(f, CurrentJson) => ~Exists(g, CurrentJson)
    /\ IsFile(f, CurrentJson) => (IsFile(g, CurrentJson) /\ g.files[CurrentJson] = f.files[CurrentJson])
    /\ IsFile(f, StateJson) => (IsFile(g, StateJson) /\ g.files[StateJson] = f.files[StateJson])

\* C10: an install whose unpack succeeds but whose plugin.json is missing,
\* unparsable, mismatching or without entry fails, keeps the version
\* directory, does not create current.json and leaves existing current.json
\* and state.json unchanged.
C10_BadManifestKeepsSelection ==
    [][(PassedDigestCheck(call') /\ UnpacksToBadManifest(platform, fs, call'.req))
          => KeepsSelection(fs, fs', call')]_vars

\* The same for every version name but "current.json".
BadManifestKeepsSelectionForOtherVersions ==
    [][(/\ PassedDigestCheck(call')
        /\ UnpacksToBadManifest(platform, fs, call'.req)
        /\ RequestedVersion(call'.req) # CurrentJsonName)
          => KeepsSelection(fs, fs', call')]_vars

\* The origin of a request's server socket, and whether one can be derived.
HasOrigin(r) == to_http_origin(r.server_socket).ok

OriginOf(r) == UrlParse(to_http_origin(r.server_socket).val)

\* The port a URL addresses: its explicit port or the default of its scheme.
EffectivePort(u) == IF u.port = "" THEN DefaultPort(u.scheme) ELSE u.port

\* The HTTP request e went to the scheme, host and port of URL u.
SentTo(e, u) ==
    e.kind = "http" /\ e.scheme = u.scheme /\ e.host = u.host /\ e.port = EffectivePort(u)

\* The HTTP requests among the events of a call.
HttpEvents(c) == {c.events[i] : i \in {j \in 1..Len(c.events) : c.events[j].kind = "http"}}

\* The URL network_fetch is asked for: a path is taken relative to the origin.
FetchTarget(r) ==
    LET raw_url == Trim(r.url)
        origin == to_http_origin(r.server_socket).val
    IN UrlParse(IF raw_url # <<>> /\ raw_url[1] = "/"
                THEN TrimEndMatches(origin, "/") \o raw_url ELSE raw_url)

\* The target of a network_fetch is a URL of another scheme, host or port than
\* the origin.
CrossOriginFetch(r) ==
    /\ r.op = "network_fetch"
    /\ HasOrigin(r)
    /\ FetchTarget(r).ok
    /\ \/ FetchTarget(r).scheme # OriginOf(r).scheme
       \/ FetchTarget(r).host # OriginOf(r).host
       \/ EffectivePort(FetchTarget(r)) # EffectivePort(OriginOf(r))

\* The fingerprint check of the server client is not in the way: the origin is
\* not https, the policy is not trust_fingerprint, or the peer passes it.
ServerClientBuilt(r) ==
    build_server_client(r.net, to_http_origin(r.server_socket).val, r.tls_policy,
                        r.tls_fingerprint).ok

PinnedHttps(r) ==
    /\ parse_tls_policy(r.tls_policy) = "TrustFingerprint"
    /\ HasOrigin(r)
    /\ OriginOf(r).scheme = "https"

\* Event e is a TLS handshake with the origin of r in which the peer presented
\* a leaf whose digest is the normalized configured fingerprint.
MatchingHandshake(e, r) ==
    /\ e.kind = "tls_handshake"
    /\ e.host = OriginOf(r).host
    /\ e.port = EffectivePort(OriginOf(r))
    /\ e.cert \in {"certA", "certB"}
    /\ cert_sha256_hex(e.cert) = normalize_fingerprint(r.tls_fingerprint)

\* C7: under trust_fingerprint with an https origin every HTTP request of a
\* call is preceded by a TLS handshake with the origin that presented a leaf
\* with the configured digest; a fingerprint that does not normalize to 64 hex
\* characters fails the call before any connection, and a peer without
\* certificate fails it before any HTTP request.
C7_PinnedBeforeHttp ==
    (call.pc = "done" /\ PinnedHttps(call.req)) =>
        /\ \A i \in 1..Len(call.events) :
              call.events[i].kind = "http" =>
                  \E j \in 1..(i - 1) : MatchingHandshake(call.events[j], call.req)
        /\ Len(normalize_fingerprint(call.req.tls_fingerprint)) # FingerprintLen =>
              (~call.ok /\ call.events = <<>>)
        /\ call.req.net.peer = "no_cert" => (~call.ok /\ HttpEvents(call) = {})

\* C7 witness: a catalog install under trust_fingerprint, the fingerprint given
\* with colons, went through: handshake first, then three HTTP requests.
C7_Witness ==
    /\ call.pc = "done"
    /\ PinnedHttps(call.req)
    /\ call.req.op = "install_from_server_catalog"
    /\ call.req.tls_fingerprint = WithColons(FpA)
    /\ call.ok
    /\ Cardinality({i \in 1..Len(call.events) : call.events[i].kind = "http"}) = 3
    /\ MatchingHandshake(call.events[2], call.req)

\* The client the server requests of r are sent with.
ServerClientOf(r) ==
    IF OriginOf(r).scheme = "https" THEN build_reqwest_client(parse_tls_policy(r.tls_policy))
    ELSE "default"

\* C9: in both install variants an HTTP request sent with the loosened client
\* goes to the scheme, host and port of the server origin; a download from any
\* other place is sent with the default client.
C9_LooseClientStaysAtOrigin ==
    (call.pc = "done" /\ call.req.op \in InstallOps) =>
        \A e \in HttpEvents(call) :
            /\ HasOrigin(call.req)
            /\ IF SentTo(e, OriginOf(call.req)) THEN e.client = ServerClientOf(call.req)
               ELSE e.client = "default"

\* C9 witness: under policy insecure with origin https://a the server was asked
\* with the loosened client and the archive fetched from https://b with the
\* default client.
C9_Witness ==
    /\ call.pc = "done"
    /\ call.req.op = "install_from_url"
    /\ parse_tls_policy(call.req.tls_policy) = "Insecure"
    /\ call.req.server_socket = TlsSocket
    /\ call.req.url = <<"https://", "b", "/", "x">>
    /\ call.ok
    /\ \E e \in HttpEvents(call) : e.client = "loose" /\ e.host = "a"
    /\ \E e \in HttpEvents(call) : e.client = "default" /\ e.host = "b"

\* The socket string asks for a pinned TLS session.
PinnedSocket(socket) == socket # <<>> /\ socket[1] = "tls-fp://"

\* The peer of connection c presented a leaf whose digest is the normalized
\* fingerprint F of its socket string tls-fp://F@host:port.
PeerMatchesPin(c) ==
    LET rest == Tail(c.socket)
        at == IndexOfAny(rest, {"@"})
        F == normalize_fingerprint(SubSeq(rest, 1, at - 1))
    IN /\ at > 0
       /\ Len(F) = FingerprintLen
       /\ c.peer \in {"certA", "certB"}
       /\ cert_sha256_hex(c.peer) = F

FingerprintErrors ==
    {"Invalid TLS fingerprint", "TLS fingerprint check failed: missing peer certificate",
     "TLS fingerprint mismatch"}

VersionDirs(f) == {d.comps[Len(d.comps)] : d \in {x \in f.dirs : x.comps # <<>> /\ Parent(x) = PluginRoot}}

\* q lists the names of S once each, in ascending order.
AscendingListOf(q, S) ==
    /\ Range(q) = S
    /\ \A i \in 1..(Len(q) - 1) : StrLess(q[i], q[i + 1])

\* C11: a successful install on a plugin without current.json writes
\* current.json = {version: the installed version, enabled: false}; a successful
\* install on a plugin with current.json leaves current.json as it was; in both
\* cases the version directories are those from before and the installed one,
\* and the returned state lists them in ascending order with the version of
\* current.json as current_version.
C11_InstallKeepsSelection ==
    [][(call'.req.op \in InstallOps /\ call'.ok) =>
          \E before \in {read_current(fs, PluginRoot)},
             after \in {read_current(fs', PluginRoot)},
             v \in {RequestedVersion(call'.req)} :
                /\ after.ok /\ after.some
                /\ IF before.ok /\ before.some THEN after.val = before.val
                   ELSE after.val = CurrentData(v, FALSE)
                /\ VersionDirs(fs') = VersionDirs(fs) \cup {v}
                /\ AscendingListOf(call'.state.installed_versions, VersionDirs(fs'))
                /\ call'.state.current_version = after.val.version
                /\ call'.state.enabled = after.val.enabled]_vars

\* C11 witness: version 2 was installed on a plugin whose version 1 is
\* selected and enabled; the state lists 1 then 2, version 1 stays selected
\* and enabled.
C11_Witness ==
    /\ call.req.op = "install_from_url"
    /\ call.ok
    /\ RequestedVersion(call.req) = Version2
    /\ call.state.installed_versions = <<Version1, Version2>>
    /\ call.state.current_version = Version1
    /\ call.state.enabled
    /\ read_current(fs, PluginRoot).val = CurrentData(Version1, TRUE)

StorageJson == Child(PluginRoot, StorageJsonName)

\* The plugin has no current.json, no state.json and no storage.json: all
\* there is of it, if anything, are version directories left by installs that
\* failed.
OnlyFailedInstalls(f) ==
    ~Exists(f, CurrentJson) /\ ~Exists(f, StateJson) /\ ~Exists(f, StorageJson)

\* A get_installed or list_installed call reports nothing of the plugin.
ReportsAbsent(c) ==
    /\ c.ok
    /\ c.req.op = "get_installed" => ~c.some
    /\ c.req.op = "list_installed" => \A e \in c.list : e.plugin_id # PluginP

\* C12: while all that was ever done to a plugin are installs that failed,
\* get_installed returns none and list_installed has no entry for it.
C12_FailedInstallNotReported ==
    [][(call'.req.op \in {"get_installed", "list_installed"} /\ OnlyFailedInstalls(fs))
          => ReportsAbsent(call')]_vars

\* The same for installs that failed before the version directory was
\* created: nothing stands at the plugin root.
AbsentPluginNotReported ==
    [][(call'.req.op \in {"get_installed", "list_installed"} /\ ~Exists(fs, PluginRoot))
          => ReportsAbsent(call')]_vars

\* current.json is there and parses.
HasCurrent(f) == \E c \in {read_current(f, PluginRoot)} : c.ok /\ c.some

\* state.json records status failed with a message.
RecordsFailure(f) ==
    /\ IsFile(f, StateJson)
    /\ f.files[StateJson].kind = "state"
    /\ f.files[StateJson].status = "failed"
    /\ f.files[StateJson].last_error # <<>>

\* The entry the manifest of the selected version names, trimmed.
SelectedEntry(f) ==
    The({Trim(f.files[Child(VersionDir(c.val.version), PluginJsonName)].entry)
         : c \in {read_current(f, PluginRoot)}})

\* C13: every failed enable on a plugin that has a current.json, once the
\* server has answered with its id, leaves state.json with status failed and
\* the error message, and leaves current.json as it was.
C13_EnableFailureRecorded ==
    [][(/\ call'.req.op = "enable" /\ ~call'.ok
        /\ call'.req.net.api_server.ok
        /\ HasCurrent(fs))
          => (RecordsFailure(fs') /\ fs'.files[CurrentJson] = fs.files[CurrentJson])]_vars

\* The part of C13 about a missing entry: the failure is recorded in
\* state.json as "Missing plugin entry: <entry>"; and no failed enable changes
\* current.json.
EnableMissingEntryRecorded ==
    [][(call'.req.op = "enable" /\ ~call'.ok /\ HasCurrent(fs))
          => /\ fs'.files[CurrentJson] = fs.files[CurrentJson]
             /\ call'.err = "Missing plugin entry" =>
                   /\ IsFile(fs', StateJson)
                   /\ fs'.files[StateJson] =
                         StateData("failed",
                                   <<"Missing plugin entry: ">> \o SelectedEntry(fs))]_vars

\* An enable failed for a missing entry file.
EnableMissingEntryReached ==
    call.req.op = "enable" /\ call.err = "Missing plugin entry" /\ RecordsFailure(fs)

\* g differs from f at most in the content of current.json.
SameButCurrent(f, g) ==
    /\ g.dirs = f.dirs
    /\ (DOMAIN g.files) \ {CurrentJson} = (DOMAIN f.files) \ {CurrentJson}
    /\ \A p \in (DOMAIN f.files) \ {CurrentJson} : g.files[p] = f.files[p]

\* What C14 promises of a switch_version call to version v from f to g with
\* result c, where installed says whether v counts as installed in f.
SwitchesSelection(f, g, c, v, installed) ==
    /\ c.ok <=> installed
    /\ c.ok => /\ \E cur \in {read_current(g, PluginRoot)} :
                     cur.ok /\ cur.some /\ cur.val.version = v
               /\ EnabledIn(g) = EnabledIn(f)
               /\ SameButCurrent(f, g)
    /\ ~c.ok => g = f

\* C14: switch_version to v succeeds exactly when the version directory of v
\* exists; on success current.json names v, enabled is as before and nothing
\* but current.json changes (state.json, storage.json and the version
\* directories stay); on failure nothing changes.
C14_SwitchOnlyToInstalled ==
    [][(call'.req.op = "switch_version" /\ call'.req.net.api_server.ok) =>
          \E v \in {Trim(call'.req.version)} :
              SwitchesSelection(fs, fs', call', v, IsDir(fs, VersionDir(v)))]_vars

\* The same with "something stands at the version path" in place of "the
\* version directory exists".
SwitchOnlyToExistingPath ==
    [][(call'.req.op = "switch_version" /\ call'.req.net.api_server.ok) =>
          \E v \in {Trim(call'.req.version)} :
              SwitchesSelection(fs, fs', call', v, Exists(fs, VersionDir(v)))]_vars

\* A switch_version from version 1 to version 2 on an enabled plugin with a
\* storage.json succeeded.
SwitchReached ==
    /\ call.req.op = "switch_version" /\ call.ok
    /\ read_current(fs, PluginRoot).val = CurrentData(Version2, TRUE)
    /\ IsFile(fs, StorageJson)

ReadOps ==
    {"list_installed", "get_installed", "get_runtime_entry", "get_runtime_entry_for_version"}

\* The InstalledPluginState st reports what current.json and state.json of
\* f hold: no current version and enabled = false without current.json,
\* status ok and an empty last_error without state.json.
ReportsStored(st, f) ==
    /\ st.has_current = IsFile(f, CurrentJson)
    /\ IsFile(f, CurrentJson) =>
          /\ st.current_version = f.files[CurrentJson].version
          /\ st.enabled = f.files[CurrentJson].enabled
    /\ ~IsFile(f, CurrentJson) => (st.current_version = <<>> /\ ~st.enabled)
    /\ IsFile(f, StateJson) =>
          /\ st.status = f.files[StateJson].status
          /\ st.last_error = f.files[StateJson].last_error
    /\ ~IsFile(f, StateJson) => (st.status = "ok" /\ st.last_error = <<>>)

\* C15: list_installed, get_installed, get_runtime_entry and
\* get_runtime_entry_for_version change nothing on disk, whether they succeed
\* or fail; a state that get_installed or list_installed returns reports the
\* enabled, current_version, status and last_error stored in current.json and
\* state.json (enabled = false, status ok, empty last_error when the file is
\* absent); get_runtime_entry answers for the version current.json names.
C15_ReadsChangeNothing ==
    [][call'.req.op \in ReadOps =>
          /\ fs' = fs
          /\ (call'.req.op = "get_installed" /\ call'.ok /\ call'.some) =>
                ReportsStored(call'.state, fs)
          /\ (call'.req.op = "list_installed" /\ call'.ok) =>
                \A e \in call'.list : e.plugin_id = PluginP /\ ReportsStored(e.state, fs)
          /\ (call'.req.op = "get_runtime_entry" /\ call'.ok) =>
                call'.entry.version = fs.files[CurrentJson].version]_vars

\* C15 witness: get_installed on a plugin that set_failed has marked: it
\* reports version 1, enabled = false, status failed and the message, and a
\* storage.json is there.
C15_Witness ==
    /\ call.req.op = "get_installed"
    /\ call.ok /\ call.some
    /\ call.state.current_version = Version1
    /\ ~call.state.enabled
    /\ call.state.status = "failed"
    /\ call.state.last_error = <<"m">>
    /\ IsFile(fs, StorageJson)

\* The path p is the plugin root or lies below it.
OfPlugin(p) ==
    /\ p.root = PluginRoot.root
    /\ Len(p.comps) >= Len(PluginRoot.comps)
    /\ SubSeq(p.comps, 1, Len(PluginRoot.comps)) = PluginRoot.comps

\* Nothing of the plugin is on disk: no plugin root, hence no version
\* directory, no current.json, no state.json, no storage.json.
NothingOfPlugin(f) == \A p \in f.dirs \cup DOMAIN f.files : ~OfPlugin(p)

\* g is f without the plugin.
PluginRemoved(f, g) ==
    /\ NothingOfPlugin(g)
    /\ g.dirs = {p \in f.dirs : ~OfPlugin(p)}
    /\ DOMAIN g.files = {p \in DOMAIN f.files : ~OfPlugin(p)}
    /\ \A p \in DOMAIN g.files : g.files[p] = f.files[p]

\* C16: when the server answers, uninstall succeeds from every plugin state
\* and leaves nothing of the plugin on disk and everything else as it was; on
\* a plugin that is not there it succeeds and changes nothing; a successful
\* install on a plugin that is not there is a first install: afterwards
\* current.json = {version: the installed one, enabled: false}, state.json is
\* ok and the installed version is the only one.
C16_UninstallIdempotent ==
    [][/\ (call'.req.op = "uninstall" /\ call'.req.net.api_server.ok) =>
             /\ call'.ok
             /\ PluginRemoved(fs, fs')
             /\ NothingOfPlugin(fs) => fs' = fs
       /\ (call'.req.op \in InstallOps /\ call'.ok /\ NothingOfPlugin(fs)) =>
             /\ fs'.files[CurrentJson] = CurrentData(RequestedVersion(call'.req), FALSE)
             /\ fs'.files[StateJson] = OkState
             /\ ~IsFile(fs', StorageJson)
             /\ VersionDirs(fs') = {RequestedVersion(call'.req)}]_vars

\* C16 witness: uninstall succeeded and nothing of the plugin is on disk,
\* while the server's directory shows that the plugin had been installed.
C16_Witness ==
    /\ call.req.op = "uninstall"
    /\ call.ok
    /\ NothingOfPlugin(fs)
    /\ IsDir(fs, Parent(PluginRoot))

\* C17: on a plugin with current.json, when the server answers, set_failed and
\* clear_error succeed; a successful set_failed leaves state.json = {failed,
\* the trimmed message} and returns that; a successful clear_error that
\* follows a successful set_failed leaves state.json = {ok, ""} and returns
\* status ok with an empty last_error.
C17_SetFailedThenClearError ==
    [][/\ (call'.req.op \in {"set_failed", "clear_error"} /\ call'.req.net.api_server.ok
           /\ HasCurrent(fs)) => call'.ok
       /\ (call'.req.op = "set_failed" /\ call'.ok) =>
             /\ fs'.files[StateJson] = StateData("failed", Trim(call'.req.message))
             /\ call'.state.status = "failed"
             /\ call'.state.last_error = Trim(call'.req.message)
       /\ (call'.req.op = "clear_error" /\ call'.ok /\ call.req.op = "set_failed" /\ call.ok) =>
             /\ fs'.files[StateJson] = OkState
             /\ call'.state.status = "ok"
             /\ call'.state.last_error = <<>>]_vars

\* C17 witness: clear_error succeeded right after a successful set_failed
\* with message " m " on a plugin whose version 1 is selected.
C17_Witness ==
    /\ call.req.op = "clear_error"
    /\ call.ok
    /\ call.after_set_failed
    /\ call.state.status = "ok"
    /\ call.state.last_error = <<>>
    /\ call.state.current_version = Version1

\* What C18 promises of a call on a plugin without current.json: it fails as
\* not installed and the filesystem stays as it was.
RefusedAsNotInstalled(f, g, c) ==
    /\ ~c.ok
    /\ c.err = "Plugin is not installed"
    /\ g = f

\* C18: set_failed and clear_error on a plugin without current.json fail with
\* the not-installed error and create no file or directory.
C18_NotInstalledRefused ==
    [][(/\ call'.req.op \in {"set_failed", "clear_error"}
        /\ call'.req.net.api_server.ok
        /\ ~Exists(fs, CurrentJson)) => RefusedAsNotInstalled(fs, fs', call')]_vars

\* The part of C18 about set_failed.
SetFailedNotInstalledRefused ==
    [][(/\ call'.req.op = "set_failed"
        /\ call'.req.net.api_server.ok
        /\ ~Exists(fs, CurrentJson)) => RefusedAsNotInstalled(fs, fs', call')]_vars

\* set_failed was refused on a plugin that is not there.
SetFailedNotInstalledReached ==
    /\ call.req.op = "set_failed"
    /\ call.err = "Plugin is not installed"
    /\ NothingOfPlugin(fs)

----------------------------------------------------------------------------
(* Migration ledger                                                         *)

LedgerRow(mig) == [version |-> mig.version, name |-> mig.name]

StatementsOf(mig) == {mig.statements[n] : n \in DOMAIN mig.statements}

\* The objects created by the migrations that ledger l records.
ObjectsOf(l) == UNION {StatementsOf(mig) : mig \in {x \in AllMigrations : LedgerRow(x) \in l}}

\* Caller p's last db_init failed inside a transaction that had already
\* created objects or inserted the ledger row.
FailedInTransaction(p) ==
    /\ db.caller[p].returned
    /\ db.caller[p].err \in {"DB_MIGRATIONS_STATEMENT_EXECUTE_FAILED",
                             "DB_MIGRATIONS_RECORD_INSERT_FAILED",
                             "DB_MIGRATIONS_TXN_COMMIT_FAILED"}
    /\ db.caller[p].dropped # {}

\* C19: over every sequence of db_init calls on a database, whatever fails
\* and whatever kinds are asked for, the transaction of a version commits at
\* most once; every ledger row is the row of a migration; the row of a
\* migration is in the ledger exactly when all its statements' objects are
\* committed; and no object is committed other than those of the recorded
\* migrations, so a failed statement, insert or commit leaves nothing behind.
C19_MigrationAtomicOnce ==
    /\ \A v \in Versions : db.applied_count[v] <= 1
    /\ \A row \in db.ledger : \E mig \in AllMigrations : row = LedgerRow(mig)
    /\ \A mig \in AllMigrations :
           LedgerRow(mig) \in db.ledger <=> StatementsOf(mig) \subseteq db.tables
    /\ db.tables \ {"schema_migrations"} = ObjectsOf(db.ledger)

\* C19 witness: one caller's db_init failed in the middle of its transaction
\* and lost what it had done, the migration was then committed, and the
\* other caller's second db_init found the version applied, skipped it and
\* returned Ok.
C19_Witness ==
    \E p \in Callers, q \in Callers :
        /\ p # q
        /\ FailedInTransaction(p)
        /\ db.caller[p].io_failed
        /\ db.caller[q].returned /\ db.caller[q].ok
        /\ db.caller[q].calls = MaxInits
        /\ db.caller[q].applied # {}
        /\ db.ledger # {}
        /\ \A v \in Versions : db.applied_count[v] = 1

\* Caller p is at the ledger insert of a version that the committed ledger
\* already holds.
InsertsExistingRow(p) ==
    /\ db.caller[p].pc = "insert"
    /\ db.caller[p].migrations[db.caller[p].m].version \in {row.version : row \in db.ledger}

\* Caller p's last db_init was given the database's key, met no connection or
\* I/O failure, and has returned.
ReturnedUndisturbed(p) ==
    /\ db.caller[p].returned
    /\ ~db.caller[p].io_failed
    /\ db.caller[p].err # "DB_KEY_REQUIRED"

\* C20: under every interleaving of two db_init calls for the same key, a
\* version's transaction commits at most once, no call reaches the insert of
\* a ledger row whose version the ledger already holds, and every call that
\* meets no I/O failure returns Ok.
C20_ConcurrentInitsSucceed ==
    /\ \A v \in Versions : db.applied_count[v] <= 1
    /\ \A p \in Callers : ~InsertsExistingRow(p)
    /\ \A p \in Callers : ReturnedUndisturbed(p) => db.caller[p].ok

\* The part of C20 that holds: under every interleaving a version's
\* transaction commits at most once and the ledger never holds two rows of
\* one version; a call fails without an I/O failure only at the ledger
\* insert, and only when its `applied` lacks a version that was committed
\* after it read the ledger.
AppliedOnceUnderInterleaving ==
    /\ \A v \in Versions : db.applied_count[v] <= 1
    /\ \A r1 \in db.ledger, r2 \in db.ledger : r1.version = r2.version => r1 = r2
    /\ \A p \in Callers :
           ReturnedUndisturbed(p) /\ ~db.caller[p].ok =>
               /\ db.caller[p].err = "DB_MIGRATIONS_RECORD_INSERT_FAILED"
               /\ \E row \in db.ledger : row.version \notin db.caller[p].applied

\* A db_init that met no I/O failure returned the ledger-insert error while
\* the other caller's db_init returned Ok.
DuplicateInsertReached ==
    \E p \in Callers, q \in Callers :
        /\ p # q
        /\ ReturnedUndisturbed(p)
        /\ db.caller[p].err = "DB_MIGRATIONS_RECORD_INSERT_FAILED"
        /\ db.caller[p].calls = 1
        /\ db.caller[q].calls = 1
        /\ db.caller[q].returned /\ db.caller[q].ok

----------------------------------------------------------------------------
(* Registry bindings                                                        *)

Bound(registry, key) == \E e \in registry : e.key = key

\* Task p's connect_named returns in this step.
ConnectReturns(p) ==
    /\ reg.caller[p].pc = "locked"
    /\ reg.caller[p].op = "connect_named"
    /\ reg'.caller[p].pc = "idle"

\* What connect_named(key, path) is to do on registry map `registry`.
ConnectOutcome(p) ==
    IF DbEntry(reg.caller[p].key, reg.caller[p].path) \in reg.map
    THEN /\ reg'.caller[p].ok
         /\ reg'.map = reg.map
         /\ reg'.opened = reg.opened
    ELSE IF Bound(reg.map, reg.caller[p].key)
    THEN /\ ~reg'.caller[p].ok
         /\ reg'.map = reg.map
         /\ reg'.opened = reg.opened
    ELSE IF reg'.caller[p].ok
    THEN /\ reg'.map = reg.map \cup {DbEntry(reg.caller[p].key, reg.caller[p].path)}
         /\ reg'.opened = reg.opened + 1
    ELSE /\ reg'.map = reg.map
         /\ reg'.opened = reg.opened

\* C21: under every interleaving of connect_named, close_db and remove_db by
\* two tasks, a key has at most one entry in the registry; no step changes
\* the path of a key that is registered before and after it; and every
\* connect_named that returns has succeeded without opening a pool on the
\* same path, failed and left the registry unchanged on a different path, and
\* on an unregistered key either bound it and opened one pool or failed and
\* bound nothing, so two tasks racing for one unregistered key with
\* different paths leave exactly one binding.
C21_KeyBoundToOnePath ==
    /\ [](\A e \in reg.map, f \in reg.map : e.key = f.key => e = f)
    /\ [][/\ \A e \in reg.map, f \in reg'.map : e.key = f.key => e.path = f.path
          /\ \A p \in Callers : ConnectReturns(p) => ConnectOutcome(p)]_vars

\* C21 witness: two connect_named calls for one key with different paths
\* were in progress together on an unregistered key; one returned Ok, the
\* other returned the error, one pool was opened and the key is bound to the
\* winner's path only.
C21_Witness ==
    \E p \in Callers, q \in Callers :
        /\ p # q
        /\ reg.caller[p].pc = "idle" /\ reg.caller[q].pc = "idle"
        /\ reg.caller[p].calls = 1 /\ reg.caller[q].calls = 1
        /\ reg.caller[p].op = "connect_named" /\ reg.caller[q].op = "connect_named"
        /\ reg.caller[p].key = reg.caller[q].key
        /\ reg.caller[p].path # reg.caller[q].path
        /\ reg.caller[q].overlapped
        /\ reg.caller[p].ok /\ ~reg.caller[q].ok
        /\ reg.opened = 1
        /\ reg.map = {DbEntry(reg.caller[p].key, reg.caller[p].path)}

----------------------------------------------------------------------------
(* Migration set selected by kind                                           *)

\* The objects of the statements of every migration of list ms.
StatementsOfAll(ms) == UNION {StatementsOf(ms[n]) : n \in DOMAIN ms}

\* Caller p's last db_init ran run_migrations and returned Ok.
InitSucceeded(p) == db.caller[p].returned /\ db.caller[p].ok

\* C22: whenever a db_init has returned Ok, the objects of all statements of
\* the migration set it selected (by kind, or by key without kind) are in the
\* database, whatever happened to the database before.
C22_SelectedSetExecuted ==
    \A p \in Callers :
        InitSucceeded(p) => StatementsOfAll(db.caller[p].migrations) \subseteq db.tables

\* The part of C22 that holds: after a successful db_init every version of
\* the selected set is recorded in the ledger, and the statements of the
\* selected set have been executed when the ledger held none of its versions
\* as the call read it.
SelectedVersionsRecorded ==
    \A p \in Callers :
        InitSucceeded(p) =>
            /\ \A n \in DOMAIN db.caller[p].migrations :
                   db.caller[p].migrations[n].version \in {row.version : row \in db.ledger}
            /\ db.caller[p].applied = {} =>
                   StatementsOfAll(db.caller[p].migrations) \subseteq db.tables

\* A db_init of kind server returned Ok on a database that holds the system
\* set only.
OtherKindSkippedReached ==
    \E p \in Callers :
        /\ InitSucceeded(p)
        /\ db.caller[p].migrations = server_migrations
        /\ db.caller[p].applied # {}
        /\ db.ledger = {LedgerRow(system_migrations[1])}
        /\ db.tables = {"schema_migrations"} \cup StatementsOf(system_migrations[1])

----------------------------------------------------------------------------
(* db_transaction                                                           *)

\* The rows that statement list q writes.
WritesOf(q) == {q[n].sql : n \in {x \in DOMAIN q : q[x].rows > 0}}

\* The db_transaction call returns in this step.
TxnReturns == dbtxn'.call.returned /\ dbtxn'.call.pc = "idle" /\ dbtxn'.call # dbtxn.call

\* C23: db_transaction is all-or-nothing. No step of a call that has not
\* returned changes the committed rows; a call that returns Ok has committed
\* the writes of all its statements and returns one result per statement, in
\* input order, each with its statement's affected rows; a call that returns
\* an error (no connection, begin, a statement or the commit failed) leaves
\* the committed rows as they were before the call.
C23_TransactionAllOrNothing ==
    [][/\ dbtxn'.call.pc # "idle" => dbtxn'.rows = dbtxn.rows
       /\ TxnReturns =>
              IF dbtxn'.call.ok
              THEN /\ dbtxn'.rows = dbtxn.rows \cup WritesOf(dbtxn'.call.statements)
                   /\ Len(dbtxn'.call.value) = Len(dbtxn'.call.statements)
                   /\ \A n \in DOMAIN dbtxn'.call.statements :
                          dbtxn'.call.value[n] =
                              exec_result(dbtxn'.call.statements[n].rows)
              ELSE /\ dbtxn'.rows = dbtxn.rows
                   /\ dbtxn'.call.value = <<>>]_vars

\* C23 witness: a first call committed w1, and a second call of two writing
\* statements failed after its first statement had run (at the second
\* statement or at the commit): the committed rows are those of the first
\* call alone.
C23_Witness ==
    /\ dbtxn.call.calls = MaxTxnCalls
    /\ dbtxn.call.returned /\ ~dbtxn.call.ok
    /\ dbtxn.call.err \in {"DB_TRANSACTION_EXECUTE_FAILED", "DB_TRANSACTION_COMMIT_FAILED"}
    /\ dbtxn.call.statements = <<DbStatement("w2", 2), DbStatement("w1", 1)>>
    /\ Len(dbtxn.call.results) >= 1
    /\ dbtxn.rows = {"w1"}

----------------------------------------------------------------------------
(* Frame length limit                                                       *)

\* The bytes of b that follow its complete records and its zero-length
\* headers.
RECURSIVE Unconsumed(_)
Unconsumed(b) ==
    IF Len(b) < 2 THEN b
    ELSE IF b[1] * 256 + b[2] = 0 THEN Unconsumed(Drop(b, 2))
    ELSE IF Len(b) < 2 + b[1] * 256 + b[2] THEN b
    ELSE Unconsumed(Drop(b, 2 + b[1] * 256 + b[2]))

----------------------------------------------------------------------------
(* Concurrent store calls                                                  *)

\* Both tasks have run an install to its return, for different plugin ids.
InstallsOfDifferentIds ==
    /\ \A t \in ParTasks : par.task[t].returned /\ par.task[t].req.op = "install_from_url"
    /\ Trim(par.task[1].req.plugin_id) # Trim(par.task[2].req.plugin_id)

ParResult(tk) == [ok |-> tk.ok, err |-> tk.err, state |-> tk.state]

\* The install of a task's request run in one piece on filesystem f.
InstallAlone(f, tk) ==
    finish_install("unix", f, ServerS, Trim(tk.req.plugin_id), Trim(tk.req.version),
                   tk.req.archive)

\* C25: two installs of different plugin ids on one server, run by concurrent
\* tasks, leave under every interleaving of their steps the files and return
\* the results of the two installs run one after the other, in either order.
C25_DifferentIdsDoNotInterfere ==
    InstallsOfDifferentIds =>
        \A first \in ParTasks :
            \E second \in ParTasks \ {first} :
                \E a \in {InstallAlone(par.fs0, par.task[first])} :
                    \E b \in {InstallAlone(a.fs, par.task[second])} :
                        /\ par.fs = b.fs
                        /\ ParResult(par.task[first]) = [ok |-> a.ok, err |-> a.err, state |-> a.state]
                        /\ ParResult(par.task[second]) = [ok |-> b.ok, err |-> b.err, state |-> b.state]

\* Two successful first installs of p and q whose steps interleaved.
C25_Witness ==
    /\ InstallsOfDifferentIds
    /\ par.fs0 = EmptyFs
    /\ \A t \in ParTasks : par.task[t].ok
    /\ \E t \in ParTasks : par.task[t].overlapped
    /\ IsFile(par.fs, Child(plugin_root_dir(ServerS, PluginP).path, CurrentJsonName))
    /\ IsFile(par.fs, Child(plugin_root_dir(ServerS, PluginQ).path, CurrentJsonName))

\* C26: a call that reads current.json while another call on the same plugin
\* rewrites it sees the previous or the new content, so no call reads an
\* existing current.json as absent.
C26_ExistingCurrentNeverReadAsAbsent ==
    \A t \in ParTasks : ~par.task[t].read_as_absent

\* Outside a rewrite a state file is never empty: when no task stands between
\* the truncation and the write of a file, the file has content.
EmptyOnlyDuringRewrite ==
    \A p \in DOMAIN par.fs.files :
        par.fs.files[p] = EmptyFile =>
            \E t \in ParTasks : par.task[t].pc = "write" /\ par.task[t].target = p

\* A disable of an installed plugin that read its current.json during the
\* rewrite by another disable and failed with "Plugin is not installed".
ReadDuringRewriteReached ==
    \E t \in ParTasks :
        /\ par.task[t].read_as_absent
        /\ par.task[t].returned
        /\ par.task[t].req.op = "disable"
        /\ par.task[t].err = "Plugin is not installed"

----------------------------------------------------------------------------
(* The trust decision of api_request_json and of the store's client        *)

\* The TCP connects and TLS handshakes among events, in order.
TlsEvents(events) ==
    LET IsTls(e) == e.kind \in {"tcp_connect", "tls_handshake"} IN SelectSeq(events, IsTls)

\* An api_request_json call that passed its argument checks and has an origin.
ApiCallWithOrigin ==
    /\ call.pc = "done"
    /\ call.req.op = "api_request_json"
    /\ Trim(call.req.server_socket) # <<>>
    /\ StartsWith(Trim(call.req.url), <<"/", "api", "/">>)
    /\ ~ContainsSeq(Trim(call.req.url), <<".", ".">>)
    /\ to_http_origin(Trim(call.req.server_socket)).ok

\* What build_server_client does for the socket, policy and fingerprint of the
\* call.
StoreClientOfCall ==
    build_server_client(call.req.net, to_http_origin(Trim(call.req.server_socket)).val,
                        call.req.tls_policy, call.req.tls_fingerprint)

\* The origin of the call is an https:// origin.
HttpsOrigin == StartsWith(Trim(to_http_origin(Trim(call.req.server_socket)).val), <<"https://">>)

\* The two functions decide alike: the same connects and handshakes, and the
\* fingerprint check fails in one exactly when it fails in the other, with the
\* same error.
SameTrustDecision ==
    \E c \in {StoreClientOfCall} :
        /\ TlsEvents(call.events) = c.events
        /\ ~c.ok => (~call.ok /\ call.err = c.err)
        /\ c.ok => (call.ok \/ call.err = "Failed to send request")

\* C27: for every server socket, TLS policy and fingerprint api_request_json
\* takes the trust decision of build_server_client: the fingerprint handshake
\* exactly when the policy is trust_fingerprint and the origin is https, and
\* for an http:// origin no TLS connection and no failure from the TLS policy.
C27_SameTrustDecision ==
    ApiCallWithOrigin =>
        /\ SameTrustDecision
        /\ ~HttpsOrigin => (TlsEvents(call.events) = <<>>
                            /\ (call.ok \/ call.err = "Failed to send request"))

\* On https origins the two functions decide alike.
SameTrustDecisionOnHttps == (ApiCallWithOrigin /\ HttpsOrigin) => SameTrustDecision

\* api_request_json on an http:// origin under trust_fingerprint performed a
\* TLS handshake with port 80.
HandshakeOnHttpReached ==
    /\ ApiCallWithOrigin
    /\ ~HttpsOrigin
    /\ \E i \in 1..Len(call.events) : call.events[i].kind = "tls_handshake"

----------------------------------------------------------------------------
(* Pool sizes                                                              *)

\* The configured value counts as missing or zero: no object, no such key, a
\* value that is no number, or the number 0.
MissingOrZero(c, key) ==
    \/ ~c.object
    \/ c[key].kind # "number"
    \/ (c[key].int /\ ~c[key].negative /\ c[key].val = Zero)

\* C28: whatever database_pool_max_connections and
\* database_pool_min_connections hold, the pool is opened with max >= 1 and
\* 1 <= min <= max; a missing or zero max becomes 5, a missing or zero min
\* becomes 1.
C28_PoolSizesValid ==
    pool.pc = "opened" =>
        /\ pool.max_connections # Zero
        /\ pool.min_connections # Zero
        /\ ~WideGt(pool.min_connections, pool.max_connections)
        /\ ~WideGt(pool.max_connections, U32Max)
        /\ MissingOrZero(pool.config, "max") => pool.max_connections = DefaultMaxConn
        /\ MissingOrZero(pool.config, "min") => pool.min_connections = DefaultMinConn

\* A pool opened from a configured min above the configured max: min 6 and
\* max 2 open the pool with 2 and 2.
C28_Witness ==
    /\ pool.pc = "opened"
    /\ pool.config.object
    /\ pool.config.max = JsonNumber(Wide(0, 2), TRUE, FALSE)
    /\ pool.config.min = JsonNumber(Wide(0, 6), TRUE, FALSE)
    /\ pool.max_connections = Wide(0, 2)
    /\ pool.min_connections = Wide(0, 2)

----------------------------------------------------------------------------
(* Statuses of the app:// handler                                          *)

\* s up to its first "?" or "#".
RECURSIVE BeforeQueryOrFragment(_)
BeforeQueryOrFragment(s) ==
    IF s = <<>> \/ s[1] \in {"?", "#"} THEN <<>>
    ELSE <<s[1]>> \o BeforeQueryOrFragment(Tail(s))

\* The number of non-empty "/"-separated segments of s.
RECURSIVE NonEmptySegments(_)
NonEmptySegments(s) ==
    IF s = <<>> THEN 0
    ELSE IF s[1] = "/" THEN NonEmptySegments(Tail(s))
    ELSE IF Len(s) = 1 \/ s[2] = "/" THEN 1 + NonEmptySegments(Tail(s))
    ELSE NonEmptySegments(Tail(s))

\* An app:// request has been answered.
AppAnswered == pathCall.pc = "done" /\ pathCall.via = "app"

\* The segments of the answered request that remain after the prefix, the
\* query and the fragment.
SegmentsOfRequest ==
    NonEmptySegments(BeforeQueryOrFragment(Drop(pathCall.uri, Len(AppPrefix))))

\* C29: the app:// handler answers 404 exactly when the URI does not start
\* with app://plugins/, 400 exactly when fewer than 4 non-empty segments
\* remain after the query and the fragment are cut off, 500 exactly when the
\* path is then refused or the file cannot be read, and otherwise 200 with the
\* file's bytes and the Content-Type of the suffix; no other status occurs, and
\* no error of resolution or reading is answered with a 4xx.
C29_AppSchemeStatuses ==
    AppAnswered =>
        /\ pathCall.status \in {200, 400, 404, 500}
        /\ pathCall.status = 404 <=> ~StartsWith(pathCall.uri, AppPrefix)
        /\ pathCall.status = 400 <=>
               (StartsWith(pathCall.uri, AppPrefix) /\ SegmentsOfRequest < 4)
        /\ pathCall.status = 500 <=>
               /\ StartsWith(pathCall.uri, AppPrefix)
               /\ SegmentsOfRequest >= 4
               /\ (~pathCall.ok \/ ~pathCall.file.ok)
        /\ pathCall.status = 200 =>
               /\ pathCall.body = pathCall.file.bytes
               /\ pathCall.content_type # ""
               /\ EndsWith(pathCall.uri, <<".", "J", "S">>) =>
                      pathCall.content_type = "text/javascript; charset=utf-8"
               /\ EndsWith(pathCall.uri, <<"a", "j", "s">>) =>
                      pathCall.content_type = "application/octet-stream"
        /\ pathCall.status # 200 => (pathCall.body = <<>> /\ pathCall.content_type = "")

\* A request for an existing path whose file cannot be read, answered 500.
C29_Witness ==
    /\ AppAnswered
    /\ pathCall.ok
    /\ ~pathCall.file.ok
    /\ pathCall.status = 500

----------------------------------------------------------------------------
(* Single-root detection of the unpack                                     *)

\* Letters of plain archive names.
PlainChars == {"a", "b", "c", "r"}

\* A plain path: segments of letters separated by single slashes.
PlainPath(n) ==
    /\ n # <<>>
    /\ \A i \in 1..Len(n) : n[i] \in PlainChars \cup {"/"}
    /\ \A i \in 1..Len(Split(n, "/")) : Split(n, "/")[i] # <<>>

\* The names of the file entries and of the directory entries (without the
\* closing slash) of the unpacked archive.
FileNames == {unpackCall.archive[i].name :
                 i \in {j \in 1..Len(unpackCall.archive) :
                           ~zip_is_dir(unpackCall.archive[j].name)}}

DirNames == {SubSeq(unpackCall.archive[i].name, 1, Len(unpackCall.archive[i].name) - 1) :
                i \in {j \in 1..Len(unpackCall.archive) :
                          zip_is_dir(unpackCall.archive[j].name)}}

\* Every file entry has at least two segments and all have the same first one.
SharedRoot ==
    /\ FileNames # {}
    /\ \A n \in FileNames : Len(Split(n, "/")) >= 2
    /\ \A n, m \in FileNames : Split(n, "/")[1] = Split(m, "/")[1]

\* Directory entries occur only with a shared root, as the root itself or a
\* directory below it.
DirEntriesOfSharedRoot ==
    DirNames # {} =>
        /\ SharedRoot
        /\ \A d \in DirNames : \A n \in FileNames : Split(d, "/")[1] = Split(n, "/")[1]

\* No entry needs a directory where another entry puts a file.
NoNameClash ==
    \A n \in FileNames : \A m \in FileNames \cup DirNames :
        ~(Len(m) > Len(n) /\ SubSeq(m, 1, Len(n) + 1) = n \o <<"/">>) /\ (m \in DirNames => m # n)

\* A finished unpack of an archive of plain file entries, with or without
\* directory entries.
PlainUnpackDone ==
    /\ unpackCall.pc = "done"
    /\ unpackCall.archive # NotAZip
    /\ FileNames # {}
    /\ \A n \in FileNames \cup DirNames : PlainPath(n)
    /\ NoNameClash

\* The files below the version directory, as segments relative to it.
ExtractedPaths ==
    {Drop(p.comps, Len(VersionDir(Version1).comps)) :
        p \in {q \in DOMAIN fs.files :
                  /\ q.root = "plugins"
                  /\ Len(q.comps) > Len(VersionDir(Version1).comps)
                  /\ SubSeq(q.comps, 1, Len(VersionDir(Version1).comps))
                         = VersionDir(Version1).comps}}

\* The paths the files are to be extracted to: without the first segment
\* under a shared root, unchanged otherwise.
StrippedPaths ==
    {IF SharedRoot THEN Tail(Split(n, "/")) ELSE Split(n, "/") : n \in FileNames}

\* C30: when every file entry has at least two segments and all share the
\* first one, the files are extracted without it; when the first segments
\* differ or a file sits at top level, they are extracted under their names;
\* explicit directory entries of the shared root change nothing of this.
C30_SingleRootStripped ==
    (PlainUnpackDone /\ DirEntriesOfSharedRoot) =>
        (unpackCall.ok /\ ExtractedPaths = StrippedPaths)

\* The same for archives without directory entries.
SingleRootStrippedWithoutDirEntries ==
    (PlainUnpackDone /\ DirNames = {}) =>
        (unpackCall.ok /\ ExtractedPaths = StrippedPaths)

\* r/a and r/b/c were extracted as a and b/c.
SharedRootStrippedReached ==
    /\ PlainUnpackDone
    /\ FileNames = {NameRA, NameRBC}
    /\ unpackCall.ok
    /\ ExtractedPaths = {<<(<<"a">>)>>, <<(<<"b">>), (<<"c">>)>>}

\* The archive of the directory entry r/ and the file r/a was refused.
DirEntryRefusedReached ==
    /\ PlainUnpackDone
    /\ FileNames = {NameRA}
    /\ DirNames = {<<"r">>}
    /\ ~unpackCall.ok
    /\ ExtractedPaths = {}

----------------------------------------------------------------------------
(* The order of the steps of a catalog install                             *)

\* The paths of the HTTP requests of a call, in order.
HttpPaths(c) ==
    LET IsHttp(e) == e.kind = "http"
        h == SelectSeq(c.events, IsHttp)
    IN [i \in 1..Len(h) |-> h[i].path]

ServerPath == <<"/", "api", "/", "server">>

CatalogPath == <<"/", "api", "/", "plugins", "/", "catalog">>

\* The catalog does not list the plugin, lists another version than the
\* non-empty expected one, or gives no download info for it.
NothingToDownload(r) ==
    \/ \A i \in 1..Len(r.net.catalog.plugins) : r.net.catalog.plugins[i].plugin_id # r.plugin_id
    \/ Trim(r.version) # <<>> /\ Trim(r.version) # Trim(CatalogTarget(r).version)
    \/ ~CatalogTarget(r).has_download

\* plugin.json in the version directory of the request names the plugin, the
\* version and an entry.
ManifestPasses(f, r) ==
    \E m \in {read_to_string(f, Child(VersionDir(RequestedVersion(r)), PluginJsonName))} :
        /\ m.ok
        /\ m.data.kind = "manifest"
        /\ Trim(m.data.plugin_id) = r.plugin_id
        /\ Trim(m.data.version) = RequestedVersion(r)
        /\ Trim(m.data.entry) # <<>>

\* The content of the file at p, if there is one.
FileAt(f, p) == IF IsFile(f, p) THEN <<f.files[p]>> ELSE <<>>

\* What a catalog install c that took the filesystem from f to g did, step
\* after step.
CatalogInstallInOrder(f, g, c) ==
    \E h \in {HttpPaths(c)} :
        /\ Len(h) <= 3
        /\ Len(h) >= 1 => h[1] = ServerPath
        /\ Len(h) >= 2 => (h[2] = CatalogPath /\ c.req.net.api_server.ok)
        /\ Len(h) = 3 => (c.req.net.catalog.ok /\ ~NothingToDownload(c.req))
        /\ NothingToDownload(c.req) => (~c.ok /\ Len(h) <= 2 /\ g = f)
        /\ g # f =>
              /\ Len(h) = 3
              /\ c.req.net.download.ok
              /\ ~DigestMismatch(c.req)
              /\ IsDir(g, VersionDir(RequestedVersion(c.req)))
        /\ (FileAt(g, CurrentJson) # FileAt(f, CurrentJson)
            \/ FileAt(g, StateJson) # FileAt(f, StateJson)) => ManifestPasses(g, c.req)
        /\ FileAt(g, StateJson) # FileAt(f, StateJson) =>
              (IsFile(g, CurrentJson) /\ FileAt(g, StateJson) = <<OkState>>)
        /\ c.ok => (ManifestPasses(g, c.req) /\ FileAt(g, StateJson) = <<OkState>>)

\* C31: install_from_server_catalog asks for the server id, then the catalog,
\* then downloads, checks the digest, creates the version directory, unpacks,
\* checks the manifest, writes current.json and then state.json; a step that
\* fails prevents the later ones: nothing is downloaded when the catalog has
\* no entry, another version or no download info, and state.json is reset to
\* ok only after the manifest check passed.
C31_CatalogInstallInOrder ==
    [][call'.req.op = "install_from_server_catalog" => CatalogInstallInOrder(fs, fs', call')]_vars

\* A catalog install on a plugin marked failed stopped at the manifest check:
\* three requests were sent, the archive is unpacked, state.json still records
\* the failure.
C31_Witness ==
    /\ call.pc = "done"
    /\ call.req.op = "install_from_server_catalog"
    /\ ~call.ok
    /\ call.err \in {"Invalid plugin.json", "plugin_id mismatch in manifest"}
    /\ Len(HttpPaths(call)) = 3
    /\ IsDir(fs, VersionDir(RequestedVersion(call.req)))
    /\ RecordsFailure(fs)

----------------------------------------------------------------------------
(* Session registry: a failed add, by build                                *)

\* The socket string names the mock scheme.
IsMockSocket(socket) == socket # <<>> /\ socket[1] = "mock://"

\* The step is the call add_tcp_service(server_socket, socket) meeting peer.
AddStep(t, u, server_socket, socket, peer) == u = AddOutcome(t, server_socket, socket, peer)

\* The step is the call send_tcp_service(server_socket, data) with outcome io
\* of the write.
SendStep(t, u, server_socket, io) == u = SendOutcome(t, server_socket, io)

\* The connection attempt an add records is the one of its socket and peer
\* (none for a mock:// socket).
AttemptOf(last, socket, peer) ==
    IF IsMockSocket(socket) THEN last.conn = NoConnection
    ELSE last.conn.socket = socket /\ last.conn.peer = peer

\* What C32 says of one add on an initialised registry.
FailedAddByBuild(t, u, server_socket, socket, peer) ==
    LET failing == ~IsMockSocket(socket) /\ ~Connects[<<socket, peer>>].ok IN
    /\ (t.build = "release" /\ (IsMockSocket(socket) \/ failing)) =>
          /\ ~u.last.ok
          /\ u.last.err # ""
          /\ u.map = t.map
    /\ (t.build = "debug" /\ failing) =>
          /\ u.last.ok
          /\ u.map[server_socket].kind = "Mock"
          /\ u.map[server_socket].mode = "ConnectFailed"
          /\ \A k \in ServerSockets \ {server_socket} : u.map[k] = t.map[k]

\* C32: in a release build an add with a mock:// socket or with a failing
\* connect returns an error and leaves the registry as it was (a session
\* registered before under the key stays); in a debug build an add with a
\* failing connect returns success and registers a ConnectFailed mock under
\* the key, and every send on a key holding a ConnectFailed mock fails.
C32_FailedAddByBuild ==
    [][/\ (tcp.initialized /\ tcp'.last.op = "add") =>
             \A k \in ServerSockets, socket \in TcpSockets, peer \in Peers :
                 (AttemptOf(tcp'.last, socket, peer) /\ AddStep(tcp, tcp', k, socket, peer)) =>
                     FailedAddByBuild(tcp, tcp', k, socket, peer)
       /\ \A k \in ServerSockets, io \in {"ok", "partial", "failed"} :
             (tcp.map[k].kind = "Mock" /\ tcp.map[k].mode = "ConnectFailed"
              /\ tcp'.last.op = "send" /\ SendStep(tcp, tcp', k, io)) =>
                 (~tcp'.last.ok /\ tcp'.map = tcp.map)]_vars

\* C32 witness (release): a real session is registered under k1, and the last
\* call was an add on a mock:// socket that returned the build's error.
C32_Witness ==
    /\ tcp.build = "release"
    /\ tcp.last.op = "add"
    /\ tcp.last.err = "mock:// socket is only supported in debug builds"
    /\ tcp.map["k1"].kind = "Real"

\* C32 witness (debug): a send on a key whose add fell back to the
\* ConnectFailed mock has failed.
SendOnConnectFailedReached ==
    /\ tcp.build = "debug"
    /\ tcp.last.op = "send"
    /\ tcp.last.err = "Mock TCP: connect failed"
    /\ tcp.map["k1"].mode = "ConnectFailed"

----------------------------------------------------------------------------
(* Session registry: a backend starts once                                 *)

\* The step is the call listen_tcp_service(server_socket, app).
ListenStep(t, u, server_socket) == u = ListenOutcome(t, server_socket)

\* What an add that registered a backend under the key has started: the read
\* loop of a real service, the handshake emission of a HandshakeOk mock,
\* nothing for the other mocks; one task at most, belonging to the backend
\* just inserted.
StartedByAdd(t, u, k) ==
    LET b == u.map[k]
        kind == IF b.kind = "Real" THEN "reader"
                ELSE IF b.mode = "HandshakeOk" THEN "handshake" ELSE ""
    IN /\ u.gen[k] = t.gen[k] + 1
       /\ u.tasks = IF kind = "" THEN t.tasks ELSE t.tasks \cup {Task(kind, k, u.gen[k])}
       /\ u.starts[k] = IF kind = "" THEN 0 ELSE 1
       /\ b.kind = "Real" => b.conn.reader
       /\ b.kind = "Mock" => b.started

\* C33: a registered backend is started at most once. An add that returns Ok
\* has started the backend it registered (the read loop of a real service,
\* the handshake emission of a HandshakeOk mock); a listen starts no task and
\* emits no event, whatever the number of listens before it; a listen on a
\* key that is not registered fails and leaves the registry as it was.
C33_BackendStartsOnce ==
    [][/\ \A k \in ServerSockets : tcp'.starts[k] <= 1
       /\ (tcp.initialized /\ tcp'.last.op = "add" /\ tcp'.last.ok) =>
             \A k \in ServerSockets, socket \in TcpSockets, peer \in Peers :
                 (AttemptOf(tcp'.last, socket, peer) /\ AddStep(tcp, tcp', k, socket, peer)) =>
                     StartedByAdd(tcp, tcp', k)
       /\ tcp'.last.op = "listen" =>
             \A k \in ServerSockets :
                 ListenStep(tcp, tcp', k) =>
                     /\ tcp'.tasks = tcp.tasks
                     /\ tcp'.event = tcp.event
                     /\ tcp'.starts = tcp.starts
                     /\ tcp'.map = tcp.map
                     /\ tcp.map[k].kind = "None" => ~tcp'.last.ok]_vars

\* C33 witness: a HandshakeOk mock was added, its handshake was emitted, and
\* a listen on its key has returned Ok after that.
C33_Witness ==
    /\ tcp.last.op = "listen"
    /\ tcp.last.ok
    /\ tcp.map["k1"].mode = "HandshakeOk"
    /\ tcp.starts["k1"] = 1
    /\ tcp.tasks = {}
    /\ tcp.event.name = "tcp-frame"

\* A listen on a real session whose read loop runs has returned Ok.
ListenOnRealReached ==
    /\ tcp.last.op = "listen"
    /\ tcp.last.ok
    /\ tcp.map["k1"].kind = "Real"
    /\ Task("reader", "k1", 1) \in tcp.tasks

\* A listen on a key that is not registered has failed.
ListenOnUnknownReached ==
    /\ tcp.last.op = "listen"
    /\ tcp.last.err = "TCP service not found for server_socket"

----------------------------------------------------------------------------
(* Session registry: events of a replaced session                          *)

\* C35: the events a read loop emits under a server_socket come from the
\* connection registered under that key when they are emitted; once an add
\* has put a new backend under the key, the read loop of the replaced
\* session emits nothing more under it.
C35_EventsFromRegisteredSessionOnly ==
    tcp.event.by = "reader" => tcp.event.gen = tcp.event.registered

\* The read loops that run under one key while nothing was replaced: at most
\* one, that of the registered backend.
OneReaderUntilReplaced ==
    \A task \in tcp.tasks :
        (task.kind = "reader" /\ tcp.gen[task.server_socket] = 1) => task.gen = 1

\* Two read loops tagged k1 run, the older one on the replaced connection,
\* and the older one has just emitted.
StaleEventReached ==
    /\ Task("reader", "k1", 1) \in tcp.tasks
    /\ Task("reader", "k1", 2) \in tcp.tasks
    /\ tcp.map["k1"].kind = "Real"
    /\ tcp.event = Event("tcp-message", Task("reader", "k1", 1), 2)

----------------------------------------------------------------------------
(* Session registry: the modes of the mock backend                         *)

\* A send step on a key that holds a mock backend answers as answer(mode)
\* says, and leaves the registry, the tasks and the last event as they were.
MockSendAnswers(t, u, answer(_)) ==
    u.last.op = "send" =>
        \A k \in ServerSockets, io \in {"ok", "partial", "failed"} :
            (t.map[k].kind = "Mock" /\ SendStep(t, u, k, io)) =>
                /\ u.last.ok = answer(t.map[k].mode)
                /\ u.map = t.map /\ u.tasks = t.tasks /\ u.event = t.event

\* No task runs and no event was emitted for a mock that is not HandshakeOk.
QuietMocksEmitNothing ==
    \A k \in ServerSockets :
        (tcp.map[k].kind = "Mock" /\ tcp.map[k].mode # "HandshakeOk") =>
            /\ \A task \in tcp.tasks :
                  ~(task.server_socket = k /\ task.gen = tcp.gen[k])
            /\ ~(tcp.event.server_socket = k /\ tcp.event.gen = tcp.gen[k])

SendOkOnlyOnHandshakeOk(mode) == mode = "HandshakeOk"

SendOkUnlessConnectFailed(mode) == mode # "ConnectFailed"

\* C39: a NoServer mock (mock:// without the handshake mode) emits no events
\* and every send on it returns an error; a HandshakeOk mock accepts sends; a
\* ConnectFailed mock rejects them.
C39_MockModes ==
    [][MockSendAnswers(tcp, tcp', SendOkOnlyOnHandshakeOk) /\ QuietMocksEmitNothing']_vars

\* C39 as the code has it: sends fail on a ConnectFailed mock only.
MockModesAsCoded ==
    [][MockSendAnswers(tcp, tcp', SendOkUnlessConnectFailed) /\ QuietMocksEmitNothing']_vars

\* A send on a NoServer mock has returned Ok.
SendOnNoServerAccepted ==
    /\ tcp.last.op = "send"
    /\ tcp.last.ok
    /\ tcp.map["k1"].kind = "Mock"
    /\ tcp.map["k1"].mode = "NoServer"

----------------------------------------------------------------------------
(* Session registry: calls exclude each other                              *)

\* Caller c is between `registry.write().await` and its return.
InBody(c) == lk.caller[c].pc \in {"connect", "insert", "lookup", "write", "start"}

\* At most one call is in its body, and it holds the lock.
CallsExclusive ==
    \A c \in LockCallers : InBody(c) => lk.holder = c

\* The bytes of each send on a connection form one block, in order: the
\* bytes written so far by a caller are a prefix of its data, and no byte of
\* another caller lies between two of them.
BlocksContiguous ==
    \A g \in 1..MaxConns :
        LET w == lk.written[g] IN
        \A i \in 1..Len(w) :
            /\ w[i].n = 1 \/ (i > 1 /\ w[i - 1] = [by |-> w[i].by, n |-> w[i].n - 1])

\* A call holds or waits for the registry lock only, and the holder is never
\* among the waiters.
OnlyTheRegistryLock ==
    /\ \A c \in LockCallers : lk.caller[c].pc = "wait" <=> (\E i \in 1..Len(lk.queue) : lk.queue[i] = c)
    /\ \A i \in 1..Len(lk.queue) : lk.queue[i] # lk.holder
    /\ lk.holder # 0 => InBody(lk.holder)

\* C36: add, send and listen exclude each other from `registry.write().await`
\* to their return, so the bytes of concurrent sends on one session reach the
\* writer as contiguous blocks; a call takes the registry lock only and
\* drops it when it returns, so every call that waits for the lock returns.
C36_CallsExcludeEachOther ==
    /\ [](CallsExclusive /\ BlocksContiguous /\ OnlyTheRegistryLock)
    /\ \A c \in LockCallers : (lk.caller[c].pc = "wait") ~> (lk.caller[c].pc = "done")

\* C36 witness: two sends on the session registered at the start have both
\* returned Ok, the second having waited for the first, and the connection
\* holds the two blocks one after the other.
C36_Witness ==
    /\ lk.caller[1].op = "send" /\ lk.caller[1].ok
    /\ lk.caller[2].op = "send" /\ lk.caller[2].ok
    /\ lk.written[1] = SendData(2) \o SendData(1)

----------------------------------------------------------------------------
(* Reader task: what the accumulator holds between chunks                  *)

\* a is the end of the bytes received so far.
SuffixOfReceived(a) ==
    /\ Len(a) <= received
    /\ a = SubSeq(stream, received - Len(a) + 1, received)

\* C37: between two reads the accumulator is a suffix of the bytes received
\* so far and holds fewer than 2 bytes, or the header of a frame of length
\* L > 0 with fewer than L bytes of payload; so it holds at most 65536 bytes
\* and never a complete frame.
C37_AccumulatorBetweenChunks ==
    /\ SuffixOfReceived(acc)
    /\ \/ Len(acc) < 2
       \/ /\ FrameLen(acc) > 0
          /\ Len(acc) < 2 + FrameLen(acc)
    /\ Len(acc) <= U16Modulus

\* C37 witness: of 00 03 41 42 43 00 00 00 02 58 59 ten bytes were read, one
\* frame was emitted, the empty frame was skipped, and the accumulator holds
\* the header 00 02 and one of its two payload bytes.
C37_Witness ==
    /\ stream = ScenarioStream
    /\ received = 10
    /\ frames = << <<65, 66, 67>> >>
    /\ acc = <<0, 2, 88>>

----------------------------------------------------------------------------
(* Database files of different keys                                        *)

\* C38: two different keys registered by db_init without a path have
\* different files, and the file of a registered key is on disk: no
\* db_remove of another key has deleted it.
C38_KeysNeverShareAFile ==
    /\ \A e1, e2 \in reg.map : e1.key # e2.key => e1.path # e2.path
    /\ \A e \in reg.map : e.path \in reg.files

\* No other key of the callers has the same sanitized form as key.
SanitizedAlone(key) ==
    \A other \in FileKeys \ {key} : sanitize_key(other) # sanitize_key(key)

\* C38 for the keys whose sanitized form no other key has.
KeysWithOwnSanitizedFormKeepTheirFile ==
    /\ \A e1, e2 \in reg.map :
          sanitize_key(e1.key) # sanitize_key(e2.key) => e1.path # e2.path
    /\ \A e \in reg.map : SanitizedAlone(e.key) => e.path \in reg.files

\* "k/" and "k_" are both registered on data/db/k_.db, and db_remove("k/")
\* has deleted that file while "k_" is still registered on it.
SharedFileDeletedReached ==
    /\ reg.caller[1].op = "db_remove"
    /\ reg.caller[1].key = <<"k", "/">>
    /\ reg.caller[1].removed = default_db_path(<<"k", "_">>)
    /\ DbEntry(<<"k", "_">>, default_db_path(<<"k", "_">>)) \in reg.map
    /\ default_db_path(<<"k", "_">>) \notin reg.files

----------------------------------------------------------------------------
(* Plugin store: the version an enabled plugin selects                     *)

\* The version current.json selects.
SelectedVersion(f) == read_current(f, PluginRoot).val.version

\* The step leaves the plugin enabled on a version it was not enabled on
\* before the step.
EnabledOnNewVersion(f, g) ==
    /\ EnabledIn(g)
    /\ ~EnabledIn(f) \/ SelectedVersion(g) # SelectedVersion(f)

\* The step is a successful enable, whose entry check was made on the
\* version selected before and after it.
CheckedByEnable(f, g, c) ==
    /\ c.req.op = "enable" /\ c.ok
    /\ read_current(f, PluginRoot).some
    /\ SelectedVersion(g) = SelectedVersion(f)

\* C34: whenever current.json records enabled = true with version v, the
\* entry check of enable was made and passed for v: the plugin becomes
\* enabled on a version only in a successful enable on that version, and no
\* enable or switch_version leaves it enabled on another one.
C34_EnabledVersionWasChecked ==
    [][(call'.req.op \in {"enable", "switch_version"} /\ EnabledOnNewVersion(fs, fs'))
          => CheckedByEnable(fs, fs', call')]_vars

\* C34 for the steps of enable: a step of enable that leaves the plugin
\* enabled on a new version is a successful enable on that version.
EnableChecksTheVersionItEnables ==
    [][(call'.req.op = "enable" /\ EnabledOnNewVersion(fs, fs'))
          => CheckedByEnable(fs, fs', call')]_vars

\* An enabled plugin was switched to version 2 by switch_version.
EnabledSwitchedReached ==
    /\ call.req.op = "switch_version" /\ call.ok
    /\ EnabledIn(fs)
    /\ SelectedVersion(fs) = Version2

----------------------------------------------------------------------------
(* Plugin store: storage_set then storage_get, alone and overlapping       *)

\* m holds value under key.
Holds(m, key, value) == key \in DOMAIN m /\ m[key] = value

\* Task t makes its calls while the other tasks make none.
Alone(p, t) == \A u \in ParTasks \ {t} : p.task[u].calls = 0

\* In this step a call of task t returns.
Returns(p, q, t) == q.task[t].returned /\ ~p.task[t].returned

\* A storage_set of a task that is alone returns Ok with its value stored
\* and every other key as it was at the call; the storage_get that follows
\* it on the same key returns that value.
SetThenGetAlone(p, q) ==
    \A t \in ParTasks :
        LET tk == q.task[t] IN
        (Alone(q, t) /\ Returns(p, q, t)) =>
            /\ tk.req.op = "storage_set" =>
                  /\ tk.ok
                  /\ Holds(StoredMap(q.fs), tk.key, tk.value)
                  /\ DOMAIN StoredMap(q.fs) = DOMAIN tk.before \cup {tk.key}
                  /\ \A k \in DOMAIN tk.before \ {tk.key} :
                        StoredMap(q.fs)[k] = tk.before[k]
            /\ (tk.req.op = "storage_get" /\ tk.set_ok /\ tk.key = tk.set_key) =>
                  (tk.ok /\ tk.some /\ tk.got = tk.set_value)

\* Every task has made a storage_set that returned Ok, on keys that differ,
\* and no call is in progress.
BothSetsReturned ==
    /\ \A t \in ParTasks : par.task[t].set_ok /\ par.task[t].pc = "idle"
    /\ par.task[1].set_key # par.task[2].set_key

\* Both values are in storage.json.
BothValuesStored ==
    \A t \in ParTasks : Holds(StoredMap(par.fs), par.task[t].set_key, par.task[t].set_value)

\* C40: storage_set(k, v) followed by storage_get(k) returns v and leaves the
\* other keys as they were; and when two storage_set calls on different keys
\* of one plugin have returned, overlapping or not, storage.json holds both
\* values.
C40_SetsOfDifferentKeysBothStored ==
    /\ [][SetThenGetAlone(par, par')]_vars
    /\ [](BothSetsReturned => BothValuesStored)

\* C40 without overlap.
SetThenGetWithoutOverlap == [][SetThenGetAlone(par, par')]_vars

\* A task has set a key and read it back while the other made no call.
SetThenGetReached ==
    /\ par.task[1].req.op = "storage_get" /\ par.task[1].returned
    /\ par.task[1].set_ok /\ par.task[1].key = par.task[1].set_key
    /\ par.task[1].got = <<"2">>
    /\ par.task[2].calls = 0
    /\ Holds(StoredMap(par.fs), <<"b">>, <<"0">>)

\* Both storage_set calls returned Ok, and storage.json holds the value of
\* one of them only.
LostUpdateReached ==
    /\ BothSetsReturned
    /\ par.task[1].calls = 1 /\ par.task[2].calls = 1
    /\ ~Holds(StoredMap(par.fs), par.task[1].set_key, par.task[1].set_value)
    /\ Holds(StoredMap(par.fs), par.task[2].set_key, par.task[2].set_value)

====
